---- MODULE Spec2Model ----
(***************************************************************************)
(* MedExplain: the query flow of the Chat page (handleSubmit), the monthly *)
(* usage metering it performs against usage_monthly, and the reference     *)
(* tables it reads.  Every storage call of the handler is one step, so     *)
(* sessions of the same user interleave between calls.                     *)
(*                                                                         *)
(* Texts that are pattern-matched (drug names, gene symbols, inputs) are   *)
(* sequences of one-character strings; other texts are strings.  A         *)
(* nullable value is <<>> (NULL) or <<v>>.                                 *)
(***************************************************************************)
EXTENDS Integers, Sequences, FiniteSets, TLC

VARIABLES
    \* reference tables (schema part_000)
    drugs, genes, variants, phenotypes, guidelines, interactions, citations,
    \* usage_monthly: the rows in insertion order
    usage_monthly,
    \* the wall clock: the year and the month of the year
    clock,
    \* the Chat page of each session: React state
    drugInput, geneInput, userType, loading, result, error, limitReached,
    \* the running handleSubmit of each session: position and locals
    pc, qUserType, currentMonth, usageData, drugData, geneData,
    interactionsData,
    \* history: queries of a user that ended with an answer, per month
    succeeded,
    \* history: number of handleSubmit calls so far
    submits,
    \* the Chat page: the "Answer saved successfully!" notice
    saveSuccess,
    \* saved_answers: the rows in insertion order; the number of handleSave
    \* calls so far, which numbers the rows; the time that created_at reads
    saved_answers, saves, now,
    \* the Cases page of each session: mounted or not, React state, and the
    \* handleDelete calls in flight, each with the list its closure holds
    casesPc, savedAnswers, casesLoading, deleting,
    \* history: the handleDelete calls of a session that returned without
    \* error, per id
    deleted,
    \* sources, app_admins and ingestion_jobs (schema part_000)
    sources, app_admins, ingestion_jobs,
    \* the Admin page of each session: the toast, the list of jobs, the job
    \* type whose webhook is running, the position of the running
    \* triggerWebhook, and the number of fetchJobs calls in flight
    toast, jobs, webhookLoading, adminPc, fetching,
    \* the Admin page of each session: the sources it lists
    pageSources,
    \* the response to the last storage call made outside the pages
    apiResult,
    \* history: webhook POSTs acknowledged; storage calls made outside the
    \* pages and webhooks triggered
    acked, calls

refVars == <<drugs, genes, variants, phenotypes, guidelines, interactions, citations>>
pageVars == <<drugInput, geneInput, userType, loading, result, error, limitReached,
              saveSuccess>>
localVars == <<pc, qUserType, currentMonth, usageData, drugData, geneData, interactionsData>>
savedVars == <<saved_answers, saves, now>>
casesVars == <<casesPc, savedAnswers, casesLoading, deleting, deleted>>
adminPage == <<toast, jobs, webhookLoading, adminPc, fetching, pageSources>>
adminRest == <<sources, app_admins, ingestion_jobs, adminPage, apiResult, acked>>
adminVars == <<adminRest, calls>>
\* what the query flow of the Chat page neither reads nor writes
otherVars == <<savedVars, casesVars, adminVars>>
vars == <<refVars, usage_monthly, clock, pageVars, localVars, succeeded, submits,
          otherVars>>

----------------------------------------------------------------------------
\* Bounds of the model

\* handleSubmit calls in one behaviour
MaxSubmits == 4
\* months the clock advances
MaxClock == 1
\* longest text drawn for the pattern-matching check
MaxLen == 3
\* handleSave calls in one behaviour, and rows saved before it starts
MaxSaves == 3
\* handleDelete calls in one behaviour
MaxDeletes == 2
\* direct storage calls and Admin page operations in one behaviour
MaxCalls == 3

\* the monthly limit of the quota check
QUOTA == 50

NULL == <<>>
Some(v) == <<v>>

Users == {"u1", "u2"}
Sessions == {"s1", "s2", "s3"}
\* the signed-in user of each page: s1 and s2 are two sessions of u1
user == [s \in Sessions |-> IF s = "s3" THEN "u2" ELSE "u1"]

----------------------------------------------------------------------------
\* Texts

UpperToLower ==
    [W |-> "w", C |-> "c", Y |-> "y", P |-> "p", D |-> "d", A |-> "a"]

Lower(c) == IF c \in DOMAIN UpperToLower THEN UpperToLower[c] ELSE c

LowerSeq(t) == [i \in 1..Len(t) |-> Lower(t[i])]

\* SQL LIKE: % matches any run of characters, _ any one character
RECURSIVE LikeMatch(_, _)
LikeMatch(p, t) ==
    IF p = <<>> THEN t = <<>>
    ELSE IF Head(p) = "%"
         THEN LikeMatch(Tail(p), t) \/ (t # <<>> /\ LikeMatch(p, Tail(t)))
    ELSE IF t = <<>> THEN FALSE
    ELSE IF Head(p) = "_" THEN LikeMatch(Tail(p), Tail(t))
    ELSE Head(p) = Head(t) /\ LikeMatch(Tail(p), Tail(t))

\* column ILIKE pattern
Ilike(col, pattern) == LikeMatch(LowerSeq(pattern), LowerSeq(col))

\* the pattern of .ilike('name', `%${input}%`)
Pattern(input) == <<"%">> \o input \o <<"%">>

\* JavaScript: a || b on nullable texts, and ${a} in a template
Truthy(a) == a # NULL /\ a[1] # ""
JsOr(a, b) == IF Truthy(a) THEN a ELSE b
Str(a) == IF a = NULL THEN "null" ELSE a[1]

\* new Date().toISOString().slice(0, 7): "YYYY-MM", the year and the month
ISOMonth(d) == <<d.year, d.month>>

\* the clock one month later
NextMonth(d) ==
    IF d.month = 12 THEN [year |-> d.year + 1, month |-> 1]
    ELSE [year |-> d.year, month |-> d.month + 1]

FirstDate == [year |-> 2026, month |-> 12]

RECURSIVE DateAfter(_)
DateAfter(n) == IF n = 0 THEN FirstDate ELSE NextMonth(DateAfter(n - 1))

Months == {ISOMonth(DateAfter(n)) : n \in 0..MaxClock}

FirstMonth == ISOMonth(FirstDate)

\* an INSERT that fails WITH CHECK is answered with an error; an UPDATE or a
\* DELETE that no policy admits touches no row and is answered without one
RLSMsg == "new row violates row-level security policy"

----------------------------------------------------------------------------
\* Storage: usage_monthly

\* as SelectUsage, without the filter on the month
SelectUsageAnyMonth(rows, caller, u, m) ==
    SelectSeq(rows, LAMBDA r : r.user_id = caller /\ r.user_id = u)

\* .from('usage_monthly').select().eq('user_id', u).eq('month', m) as caller:
\* the rows the policy "Users can read own usage" lets the caller see
SelectUsage(rows, caller, u, m) ==
    SelectSeq(rows, LAMBDA r : r.user_id = caller /\ r.user_id = u /\ r.month = m)

\* .maybeSingle(): no row is null, one row is the row, more is an error
MaybeSingle(rows) ==
    IF Len(rows) = 0 THEN [data |-> NULL, error |-> NULL]
    ELSE IF Len(rows) = 1 THEN [data |-> Some(rows[1]), error |-> NULL]
    ELSE [data |-> NULL, error |-> Some("JSON object requested, multiple (or no) rows returned")]

\* mutant: the table has no UNIQUE constraint
UsageNotUnique(rows, row) == TRUE

\* UNIQUE(user_id, month)
UsageUnique(rows, row) ==
    \A i \in 1..Len(rows) :
        ~(rows[i].user_id = row.user_id /\ rows[i].month = row.month)

\* .insert(row) as caller: the policy's WITH CHECK and the UNIQUE constraint
\* reject the row; the rejection comes back as an error value
InsertUsage(rows, caller, row) ==
    IF caller = row.user_id /\ UsageUnique(rows, row)
    THEN Append(rows, row)
    ELSE rows

\* .update({query_count: n}).eq('user_id', u).eq('month', m) as caller
UpdateUsage(rows, caller, u, m, n) ==
    [i \in 1..Len(rows) |->
        IF rows[i].user_id = caller /\ rows[i].user_id = u /\ rows[i].month = m
        THEN [rows[i] EXCEPT !.query_count = n]
        ELSE rows[i]]

\* .update(patch).eq('user_id', u) as caller: the USING of "Users can update
\* own usage" selects the rows, its WITH CHECK and UNIQUE(user_id, month)
\* test the new rows, and a row that fails rejects the whole statement
PatchUsage(rows, caller, u, patch) ==
    LET hit(i) == rows[i].user_id = caller /\ rows[i].user_id = u
        new == [i \in 1..Len(rows) |->
                   IF hit(i)
                   THEN [f \in DOMAIN rows[i] |->
                            IF f \in DOMAIN patch THEN patch[f] ELSE rows[i][f]]
                   ELSE rows[i]]
        checked == \A i \in 1..Len(rows) : hit(i) => new[i].user_id = caller
        unique == \A i, j \in 1..Len(rows) :
                     i # j => ~(new[i].user_id = new[j].user_id
                               /\ new[i].month = new[j].month)
    IN IF checked /\ unique THEN new ELSE rows

----------------------------------------------------------------------------
\* Storage: reference tables

\* .from('drugs').ilike('name', `%${input}%`).limit(1).maybeSingle():
\* the rows one of which is returned
DrugMatches(input) == {d \in drugs : Ilike(d.name, Pattern(input))}
GeneMatches(input) == {g \in genes : Ilike(g.symbol, Pattern(input))}

\* guideline:guidelines(*) and phenotype:phenotypes(phenotype, description)
Embed(table, ref) ==
    IF ref = NULL \/ ~(\E r \in table : r.id = ref[1]) THEN NULL
    ELSE Some(CHOOSE r \in table : r.id = ref[1])

Joined(i) ==
    [id |-> i.id, action |-> i.action, summary |-> i.summary,
     evidence |-> i.evidence,
     guideline |-> Embed(guidelines, i.guideline_id),
     phenotype |-> Embed(phenotypes, i.phenotype_id)]

\* the orders in which storage may return the rows of S
Orders(S) ==
    {q \in [1..Cardinality(S) -> S] :
        \A i, j \in 1..Cardinality(S) : i # j => q[i] # q[j]}

\* .from('interactions').select(...).eq('drug_id', d).eq('gene_id', g)
InteractionsOf(d, g) ==
    Orders({Joined(i) : i \in {x \in interactions : x.drug_id = d /\ x.gene_id = g}})

\* as Winner, but the row returned last
WinnerLast(q) == q[Len(q)]

\* const interaction = interactions[0]
Winner(q) == q[1]

\* .from('citations').select(...).eq('guideline_id', id)
CitationsOf(id) == Orders({c \in citations : c.guideline_id = id})

----------------------------------------------------------------------------
\* Storage: saved_answers

SavedIds == 1..MaxSaves

\* .from('saved_answers').select('*').eq('user_id', u) as caller: the rows the
\* policy "Users can read own saved answers" lets the caller see
SelectSaved(rows, caller, u) ==
    SelectSeq(rows, LAMBDA r : r.user_id = caller /\ r.user_id = u)

\* mutant: the rows come back oldest first
OrderedAscending(q) ==
    \A i, j \in 1..Len(q) : i < j => q[i].created_at <= q[j].created_at

\* .order('created_at', { ascending: false })
OrderedDescending(q) ==
    \A i, j \in 1..Len(q) : i < j => q[i].created_at >= q[j].created_at

\* mutant: the policy lets every row be read and the page does not filter
ListSavedAll(rows, caller, u) ==
    {q \in Orders({rows[i] : i \in 1..Len(rows)}) : OrderedDescending(q)}

\* the lists the select of fetchSavedAnswers may return: rows of equal
\* created_at come in any order
ListSaved(rows, caller, u) ==
    LET seen == SelectSaved(rows, caller, u)
    IN {q \in Orders({seen[i] : i \in 1..Len(seen)}) : OrderedDescending(q)}

\* as InsertSaved, without the WITH CHECK
InsertSavedAny(rows, caller, row) == Append(rows, row)

\* .insert(row) as caller: the WITH CHECK of "Users can insert own saved
\* answers"
InsertSaved(rows, caller, row) ==
    IF caller = row.user_id THEN Append(rows, row) ELSE rows

\* mutant: the delete policy lets every row be deleted
DeleteSavedAny(rows, caller, id) ==
    SelectSeq(rows, LAMBDA r : r.id # id)

\* .delete().eq('id', id) as caller: the rows the USING of "Users can delete
\* own saved answers" lets the caller delete; no row deleted is no error
DeleteSaved(rows, caller, id) ==
    SelectSeq(rows, LAMBDA r : ~(r.id = id /\ r.user_id = caller))

\* mutant: a delete that finds no row to delete is an error
DeleteErrorIfNone(rows, caller, id) ==
    IF DeleteSaved(rows, caller, id) = rows THEN Some("Row not found") ELSE NULL

\* the error value of the delete when storage answers: deleting no row is
\* not an error
DeleteError(rows, caller, id) == NULL

\* mutant: a policy lets the owner update the row
SavedUpdateOwn(caller, row) == caller = row.user_id

\* saved_answers has row level security enabled and no policy FOR UPDATE: no
\* row is visible to an update
SavedUpdatePolicy(caller, row) == FALSE

\* .update(patch).eq('id', id) as caller
UpdateSaved(rows, caller, id, patch) ==
    [i \in 1..Len(rows) |->
        IF rows[i].id = id /\ SavedUpdatePolicy(caller, rows[i])
        THEN [f \in DOMAIN rows[i] |->
                 IF f \in DOMAIN patch THEN patch[f] ELSE rows[i][f]]
        ELSE rows[i]]

----------------------------------------------------------------------------
\* Rendering

NumStr(n) == IF n = NULL THEN "null" ELSE ToString(n[1])

\* `${c.title} - ${c.authors} (${c.journal}, ${c.year})`
CitationString(c) ==
    Str(c.title) \o " - " \o Str(c.authors) \o " (" \o Str(c.journal)
        \o ", " \o NumStr(c.year) \o ")"

\* interaction.phenotype?.phenotype
PhenotypeLabel(i) ==
    IF i.phenotype = NULL THEN NULL ELSE Some(i.phenotype[1].phenotype)

\* mutant: the interaction's summary is preferred to the patient summary
PatientAnswerSwapped(i, g) ==
    JsOr(JsOr(i.summary, g.patient_summary), Some("No information available."))[1]

PatientAnswer(i, g) ==
    JsOr(JsOr(g.patient_summary, i.summary), Some("No information available."))[1]

\* mutant: the evidence line comes before the action line
ClinicianAnswerSwapped(i, g) ==
    Str(JsOr(g.clinician_summary, i.summary))
        \o "\n\nEvidence: " \o Str(i.evidence)
        \o "\n\nAction: " \o Str(i.action)
        \o "\n\nPhenotype: " \o JsOr(PhenotypeLabel(i), Some("N/A"))[1]
        \o "\n\nEvidence Level: " \o JsOr(g.evidence_level, Some("N/A"))[1]

ClinicianAnswer(i, g) ==
    Str(JsOr(g.clinician_summary, i.summary))
        \o "\n\nAction: " \o Str(i.action)
        \o "\n\nEvidence: " \o Str(i.evidence)
        \o "\n\nPhenotype: " \o JsOr(PhenotypeLabel(i), Some("N/A"))[1]
        \o "\n\nEvidence Level: " \o JsOr(g.evidence_level, Some("N/A"))[1]

AnswerText(ut, i, g) ==
    IF ut = "Patient" THEN PatientAnswer(i, g) ELSE ClinicianAnswer(i, g)

----------------------------------------------------------------------------
\* Reference data of the main specification

Warfarin == <<"W", "a", "r", "f", "a", "r", "i", "n">>
Codeine == <<"C", "o", "d", "e", "i", "n", "e">>
CYP2C9 == <<"C", "Y", "P", "2", "C", "9">>
CYP2D6 == <<"C", "Y", "P", "2", "D", "6">>

SampleDrugs == {[id |-> "d1", name |-> Warfarin], [id |-> "d2", name |-> Codeine]}
SampleGenes == {[id |-> "g1", symbol |-> CYP2C9], [id |-> "g2", symbol |-> CYP2D6]}
SampleVariants == {[id |-> "v1", gene_id |-> "g1", name |-> "*2"]}
SamplePhenotypes ==
    {[id |-> "p1", gene_id |-> "g1", phenotype |-> "Poor Metabolizer"]}
SampleGuidelines ==
    {[id |-> "gl1", drug_id |-> "d1", gene_id |-> "g1", source_id |-> Some("src1"),
      evidence_level |-> Some("High"),
      patient_summary |-> Some("Reduce dose"),
      clinician_summary |-> Some("Reduce starting dose by 50%")]}
\* warfarin and CYP2C9 interact under a guideline; the interaction of codeine
\* and CYP2D6 has no guideline (guideline_id is nullable, ON DELETE SET NULL)
SampleInteractions ==
    {[id |-> "i1", drug_id |-> "d1", gene_id |-> "g1",
      phenotype_id |-> Some("p1"), guideline_id |-> Some("gl1"),
      action |-> Some("Lower dose"), summary |-> Some("Slow clearance"),
      evidence |-> Some("CPIC A")],
     [id |-> "i2", drug_id |-> "d2", gene_id |-> "g2",
      phenotype_id |-> NULL, guideline_id |-> NULL,
      action |-> NULL, summary |-> Some("Reduced activation"),
      evidence |-> NULL]}
SampleCitations ==
    {[guideline_id |-> "gl1", title |-> Some("CPIC warfarin"),
      authors |-> Some("Johnson"), journal |-> Some("CPT"), year |-> Some(2017)]}

\* what the users of the main specification type into the form: a pair that
\* has an answer, an unknown drug, an unknown gene, a pair without
\* interaction, and a pair whose interaction has no guideline
Typed ==
    {<<<<"w", "a", "r", "f">>, <<"2", "c", "9">>>>,
     <<<<"z", "z">>, <<"2", "c", "9">>>>,
     <<<<"w", "a", "r", "f">>, <<"x">>>>,
     <<<<"w", "a", "r", "f">>, <<"2", "d", "6">>>>,
     <<<<"c", "o", "d">>, <<"2", "d", "6">>>>}

----------------------------------------------------------------------------
\* Initial states

\* The counters u1 may start the first month with: no row yet, or the row
\* that QUOTA - 1 one-after-another successful queries left behind.  u2 starts
\* without a row.
PriorCounts == {0, QUOTA - 1}

PriorRows(prior) ==
    LET row(u) == [user_id |-> u, month |-> ISOMonth(FirstDate), query_count |-> prior[u]]
    IN SelectSeq(<<row("u1"), row("u2")>>, LAMBDA r : r.query_count > 0)

InitUsage(counts) ==
    \E prior \in {p \in [Users -> counts] : p["u2"] = 0} :
        /\ usage_monthly = PriorRows(prior)
        /\ succeeded = [k \in Users \X Months |->
                           IF k[2] = ISOMonth(FirstDate) THEN prior[k[1]] ELSE 0]

InitPages ==
    /\ drugInput = [s \in Sessions |-> <<>>]
    /\ geneInput = [s \in Sessions |-> <<>>]
    /\ userType = [s \in Sessions |-> "Patient"]
    /\ loading = [s \in Sessions |-> FALSE]
    /\ result = [s \in Sessions |-> NULL]
    /\ error = [s \in Sessions |-> ""]
    /\ limitReached = [s \in Sessions |-> FALSE]
    /\ saveSuccess = [s \in Sessions |-> FALSE]
    /\ pc = [s \in Sessions |-> "idle"]
    /\ qUserType = [s \in Sessions |-> "Patient"]
    /\ currentMonth = [s \in Sessions |-> NULL]
    /\ usageData = [s \in Sessions |-> NULL]
    /\ drugData = [s \in Sessions |-> NULL]
    /\ geneData = [s \in Sessions |-> NULL]
    /\ interactionsData = [s \in Sessions |-> NULL]
    /\ clock = FirstDate
    /\ submits = 0

\* no answer saved yet, and no Cases page open
InitSaved ==
    /\ saved_answers = <<>>
    /\ saves = 0
    /\ now = 0

InitCases ==
    /\ casesPc = [s \in Sessions |-> "closed"]
    /\ savedAnswers = [s \in Sessions |-> <<>>]
    /\ casesLoading = [s \in Sessions |-> TRUE]
    /\ deleting = [s \in Sessions |-> <<>>]
    /\ deleted = [s \in Sessions |-> <<>>]

\* u1 is the administrator
SampleSources == {[id |-> "src1", name |-> "CPIC", is_active |-> TRUE]}

InitAdmin ==
    /\ sources = SampleSources
    /\ app_admins = {[user_id |-> "u1"]}
    /\ ingestion_jobs = <<>>
    /\ toast = [s \in Sessions |-> NULL]
    /\ jobs = [s \in Sessions |-> <<>>]
    /\ webhookLoading = [s \in Sessions |-> NULL]
    /\ adminPc = [s \in Sessions |-> "idle"]
    /\ fetching = [s \in Sessions |-> 0]
    /\ pageSources = [s \in Sessions |-> {}]
    /\ apiResult = NULL
    /\ acked = 0
    /\ calls = 0

InitOther == InitSaved /\ InitCases /\ InitAdmin

Init ==
    /\ drugs = SampleDrugs
    /\ genes = SampleGenes
    /\ variants = SampleVariants
    /\ phenotypes = SamplePhenotypes
    /\ guidelines = SampleGuidelines
    /\ interactions = SampleInteractions
    /\ citations = SampleCitations
    /\ InitUsage(PriorCounts)
    /\ InitPages
    /\ InitOther

----------------------------------------------------------------------------
\* Chat: handleSubmit, one action per storage call

NotFoundMsg == "Not in database yet."
\* the message of a failed storage call
StorageMsg == "Failed to fetch"
\* the message of the TypeError of guideline.id on a null guideline
NullGuidelineMsg == "Cannot read properties of null (reading 'id')"

\* mutant: the comparison is > instead of >=
QuotaReachedOffByOne(data) == data # NULL /\ data[1].query_count > QUOTA

\* usageData && usageData.query_count >= 50
QuotaReached(data) == data # NULL /\ data[1].query_count >= QUOTA

\* mutant: the first query of a month leaves the counter at its default 0
UsageWriteDefault(rows, u, m, data) ==
    IF data # NULL
    THEN UpdateUsage(rows, u, u, m, data[1].query_count + 1)
    ELSE InsertUsage(rows, u, [user_id |-> u, month |-> m, query_count |-> 0])

\* mutant: a query is charged twice
UsageWriteTwice(rows, u, m, data) ==
    IF data # NULL
    THEN UpdateUsage(rows, u, u, m, data[1].query_count + 2)
    ELSE InsertUsage(rows, u, [user_id |-> u, month |-> m, query_count |-> 2])

\* if (usageData) update query_count + 1 else insert query_count 1
UsageWrite(rows, u, m, data) ==
    IF data # NULL
    THEN UpdateUsage(rows, u, u, m, data[1].query_count + 1)
    ELSE InsertUsage(rows, u, [user_id |-> u, month |-> m, query_count |-> 1])

\* the handler returns: its locals are gone
Return(s) ==
    /\ currentMonth' = [currentMonth EXCEPT ![s] = NULL]
    /\ usageData' = [usageData EXCEPT ![s] = NULL]
    /\ drugData' = [drugData EXCEPT ![s] = NULL]
    /\ geneData' = [geneData EXCEPT ![s] = NULL]
    /\ interactionsData' = [interactionsData EXCEPT ![s] = NULL]

\* mutant: no finally block, a caught error leaves the loading flag set
CaughtNoFinally(s, msg) ==
    /\ error' = [error EXCEPT ![s] = IF msg = "" THEN "An error occurred" ELSE msg]
    /\ loading' = loading
    /\ pc' = [pc EXCEPT ![s] = "caught"]
    /\ Return(s)

\* catch (err) { setError(err.message || 'An error occurred') } finally { ... }
Caught(s, msg) ==
    /\ error' = [error EXCEPT ![s] = IF msg = "" THEN "An error occurred" ELSE msg]
    /\ loading' = [loading EXCEPT ![s] = FALSE]
    /\ pc' = [pc EXCEPT ![s] = "caught"]
    /\ Return(s)

\* mutant: a query that finds nothing is charged
ReturnNotFoundCharged(s, at) ==
    /\ error' = [error EXCEPT ![s] = NotFoundMsg]
    /\ loading' = [loading EXCEPT ![s] = FALSE]
    /\ pc' = [pc EXCEPT ![s] = at]
    /\ Return(s)
    /\ usage_monthly' = UsageWrite(usage_monthly, user[s], currentMonth[s], usageData[s])

\* mutant: a missing interaction has a message of its own
ReturnNotFoundDistinct(s, at) ==
    /\ error' = [error EXCEPT ![s] =
                    IF at = "ret87" THEN "No interaction found." ELSE NotFoundMsg]
    /\ loading' = [loading EXCEPT ![s] = FALSE]
    /\ pc' = [pc EXCEPT ![s] = at]
    /\ Return(s)
    /\ UNCHANGED usage_monthly

\* setError('Not in database yet.'); setLoading(false); return
ReturnNotFound(s, at) ==
    /\ error' = [error EXCEPT ![s] = NotFoundMsg]
    /\ loading' = [loading EXCEPT ![s] = FALSE]
    /\ pc' = [pc EXCEPT ![s] = at]
    /\ Return(s)
    /\ UNCHANGED usage_monthly

\* the form is submitted with d and g typed into it; the state is reset and
\* the usage row of the current month is requested
handleSubmit(s, d, g) ==
    /\ ~loading[s]
    /\ submits < MaxSubmits
    /\ submits' = submits + 1
    /\ drugInput' = [drugInput EXCEPT ![s] = d]
    /\ geneInput' = [geneInput EXCEPT ![s] = g]
    /\ error' = [error EXCEPT ![s] = ""]
    /\ result' = [result EXCEPT ![s] = NULL]
    /\ limitReached' = [limitReached EXCEPT ![s] = FALSE]
    /\ loading' = [loading EXCEPT ![s] = TRUE]
    /\ qUserType' = [qUserType EXCEPT ![s] = userType[s]]
    /\ currentMonth' = [currentMonth EXCEPT ![s] = ISOMonth(clock)]
    /\ pc' = [pc EXCEPT ![s] = "usage"]
    /\ saveSuccess' = [saveSuccess EXCEPT ![s] = FALSE]
    /\ UNCHANGED <<refVars, usage_monthly, clock, userType, usageData, drugData,
                   geneData, interactionsData, succeeded, otherVars>>

\* the usage read returns; the quota check
ReadUsage(s, ok) ==
    /\ pc[s] = "usage"
    /\ LET r == IF ok
                THEN MaybeSingle(SelectUsage(usage_monthly, user[s], user[s], currentMonth[s]))
                ELSE [data |-> NULL, error |-> Some(StorageMsg)]
       IN IF r.error # NULL
          THEN /\ Caught(s, r.error[1])
               /\ UNCHANGED limitReached
          ELSE IF QuotaReached(r.data)
          THEN /\ limitReached' = [limitReached EXCEPT ![s] = TRUE]
               /\ loading' = [loading EXCEPT ![s] = FALSE]
               /\ pc' = [pc EXCEPT ![s] = "ret48"]
               /\ Return(s)
               /\ UNCHANGED error
          ELSE /\ usageData' = [usageData EXCEPT ![s] = r.data]
               /\ pc' = [pc EXCEPT ![s] = "drug"]
               /\ UNCHANGED <<error, loading, limitReached, currentMonth, drugData,
                              geneData, interactionsData>>
    /\ UNCHANGED <<refVars, usage_monthly, clock, drugInput, geneInput, userType,
                   result, saveSuccess, qUserType, succeeded, submits, otherVars>>

\* the drug lookup returns: one of the matching rows, or null (its error is
\* not read)
LookupDrug(s, ok) ==
    /\ pc[s] = "drug"
    /\ \E data \in IF ok /\ DrugMatches(drugInput[s]) # {}
                   THEN {Some(d) : d \in DrugMatches(drugInput[s])}
                   ELSE {NULL} :
           drugData' = [drugData EXCEPT ![s] = data]
    /\ pc' = [pc EXCEPT ![s] = "gene"]
    /\ UNCHANGED <<refVars, usage_monthly, clock, pageVars, qUserType, currentMonth,
                   usageData, geneData, interactionsData, succeeded, submits,
                   otherVars>>

\* the gene lookup returns; if (!drugData || !geneData)
LookupGene(s, ok) ==
    /\ pc[s] = "gene"
    /\ \E data \in IF ok /\ GeneMatches(geneInput[s]) # {}
                   THEN {Some(g) : g \in GeneMatches(geneInput[s])}
                   ELSE {NULL} :
           IF drugData[s] = NULL \/ data = NULL
           THEN ReturnNotFound(s, "ret68")
           ELSE /\ geneData' = [geneData EXCEPT ![s] = data]
                /\ pc' = [pc EXCEPT ![s] = "interactions"]
                /\ UNCHANGED <<usage_monthly, error, loading, currentMonth,
                               usageData, drugData, interactionsData>>
    /\ UNCHANGED <<refVars, clock, drugInput, geneInput, userType,
                   result, limitReached, saveSuccess, qUserType, succeeded, submits,
                   otherVars>>

\* mutant: a query that fails on a null guideline is charged
FetchInteractionsCharged(s, ok) ==
    /\ pc[s] = "interactions"
    /\ \E data \in IF ok
                   THEN {Some(q) : q \in InteractionsOf(drugData[s][1].id, geneData[s][1].id)}
                   ELSE {NULL} :
           IF data = NULL \/ Len(data[1]) = 0
           THEN ReturnNotFound(s, "ret87")
           ELSE IF Winner(data[1]).guideline = NULL
           THEN /\ Caught(s, NullGuidelineMsg)
                /\ usage_monthly' = UsageWrite(usage_monthly, user[s], currentMonth[s],
                                               usageData[s])
           ELSE /\ interactionsData' = [interactionsData EXCEPT ![s] = data]
                /\ pc' = [pc EXCEPT ![s] = "citations"]
                /\ UNCHANGED <<usage_monthly, error, loading, currentMonth,
                               usageData, drugData, geneData>>
    /\ UNCHANGED <<refVars, clock, drugInput, geneInput, userType,
                   result, limitReached, saveSuccess, qUserType, succeeded, submits,
                   otherVars>>

\* the interaction fetch returns; the empty check; interactions[0] and
\* guideline.id, which throws on a null guideline
FetchInteractions(s, ok) ==
    /\ pc[s] = "interactions"
    /\ \E data \in IF ok
                   THEN {Some(q) : q \in InteractionsOf(drugData[s][1].id, geneData[s][1].id)}
                   ELSE {NULL} :
           IF data = NULL \/ Len(data[1]) = 0
           THEN ReturnNotFound(s, "ret87")
           ELSE IF Winner(data[1]).guideline = NULL
           THEN Caught(s, NullGuidelineMsg) /\ UNCHANGED usage_monthly
           ELSE /\ interactionsData' = [interactionsData EXCEPT ![s] = data]
                /\ pc' = [pc EXCEPT ![s] = "citations"]
                /\ UNCHANGED <<usage_monthly, error, loading, currentMonth,
                               usageData, drugData, geneData>>
    /\ UNCHANGED <<refVars, clock, drugInput, geneInput, userType,
                   result, limitReached, saveSuccess, qUserType, succeeded, submits,
                   otherVars>>

\* the citation fetch returns; the answer is rendered and shown, and the
\* usage write is sent
FetchCitations(s, ok) ==
    /\ pc[s] = "citations"
    /\ LET interaction == Winner(interactionsData[s][1])
           guideline == interaction.guideline[1]
       IN \E data \in IF ok THEN CitationsOf(guideline.id) ELSE {<<>>} :
            result' = [result EXCEPT ![s] = Some(
                [drug |-> drugData[s][1].name,
                 gene |-> geneData[s][1].symbol,
                 answer |-> AnswerText(qUserType[s], interaction, guideline),
                 citations |-> [i \in 1..Len(data) |-> CitationString(data[i])]])]
    /\ pc' = [pc EXCEPT ![s] = "write"]
    /\ UNCHANGED <<refVars, usage_monthly, clock, drugInput, geneInput, userType,
                   loading, error, limitReached, saveSuccess, qUserType, currentMonth,
                   usageData, drugData, geneData, interactionsData, succeeded, submits,
                   otherVars>>

\* as WriteUsage, but a failed write takes the answer off the page and shows
\* the failure
WriteUsageThrows(s, ok) ==
    /\ pc[s] = "write"
    /\ usage_monthly' = IF ok
                        THEN UsageWrite(usage_monthly, user[s], currentMonth[s], usageData[s])
                        ELSE usage_monthly
    /\ result' = [result EXCEPT ![s] = IF ok THEN @ ELSE NULL]
    /\ error' = [error EXCEPT ![s] = IF ok THEN @ ELSE StorageMsg]
    /\ loading' = [loading EXCEPT ![s] = FALSE]
    /\ pc' = [pc EXCEPT ![s] = "end"]
    /\ Return(s)
    /\ succeeded' = [succeeded EXCEPT ![<<user[s], currentMonth[s]>>] = @ + 1]
    /\ UNCHANGED <<refVars, clock, drugInput, geneInput, userType,
                   limitReached, saveSuccess, qUserType, submits, otherVars>>

\* the usage write is applied (its error is not read) and the handler ends
WriteUsage(s, ok) ==
    /\ pc[s] = "write"
    /\ usage_monthly' = IF ok
                        THEN UsageWrite(usage_monthly, user[s], currentMonth[s], usageData[s])
                        ELSE usage_monthly
    /\ loading' = [loading EXCEPT ![s] = FALSE]
    /\ pc' = [pc EXCEPT ![s] = "end"]
    /\ Return(s)
    /\ succeeded' = [succeeded EXCEPT ![<<user[s], currentMonth[s]>>] = @ + 1]
    /\ UNCHANGED <<refVars, clock, drugInput, geneInput, userType, result, error,
                   limitReached, saveSuccess, qUserType, submits, otherVars>>

\* the Patient / Clinician radio buttons
setUserType(s, t) ==
    /\ userType[s] # t
    /\ userType' = [userType EXCEPT ![s] = t]
    /\ UNCHANGED <<refVars, usage_monthly, clock, drugInput, geneInput, loading,
                   result, error, limitReached, saveSuccess, localVars, succeeded,
                   submits, otherVars>>

\* a calendar month passes
Tick ==
    /\ clock # DateAfter(MaxClock)
    /\ clock' = NextMonth(clock)
    /\ UNCHANGED <<refVars, usage_monthly, pageVars, localVars, succeeded, submits,
                   otherVars>>

\* what the Chat page's query flow keeps in storage and in its locals
queryVars == <<usage_monthly, clock, localVars, succeeded, submits>>

----------------------------------------------------------------------------
\* Chat: handleSave

\* the row handleSave inserts: the shown result and the view selected now
SavedRow(s, id, at) ==
    [id |-> id, user_id |-> user[s],
     drug_name |-> result[s][1].drug, gene_name |-> result[s][1].gene,
     user_type |-> userType[s], answer |-> result[s][1].answer,
     created_at |-> at]

\* the save button: the insert is awaited, its error value is not read, and
\* the success notice is shown; created_at is the time of the insert
handleSave(s, ok) ==
    /\ result[s] # NULL
    /\ saves < MaxSaves
    /\ saves' = saves + 1
    /\ now' = now + 1
    /\ saved_answers' =
          IF ok
          THEN InsertSaved(saved_answers, user[s], SavedRow(s, saves + 1, now + 1))
          ELSE saved_answers
    /\ saveSuccess' = [saveSuccess EXCEPT ![s] = TRUE]
    /\ UNCHANGED <<refVars, queryVars, drugInput, geneInput, userType, loading,
                   result, error, limitReached, casesVars, adminVars>>

\* setTimeout(() => setSaveSuccess(false), 3000)
hideSaveSuccess(s) ==
    /\ saveSuccess[s]
    /\ saveSuccess' = [saveSuccess EXCEPT ![s] = FALSE]
    /\ UNCHANGED <<refVars, queryVars, drugInput, geneInput, userType, loading,
                   result, error, limitReached, otherVars>>

----------------------------------------------------------------------------
\* Cases: fetchSavedAnswers, handleDelete

\* the page is opened: useEffect calls fetchSavedAnswers
mountCases(s) ==
    /\ casesPc[s] = "closed"
    /\ casesPc' = [casesPc EXCEPT ![s] = "fetching"]
    /\ savedAnswers' = [savedAnswers EXCEPT ![s] = <<>>]
    /\ casesLoading' = [casesLoading EXCEPT ![s] = TRUE]
    /\ UNCHANGED <<refVars, queryVars, pageVars, savedVars, deleting, deleted,
                   adminVars>>

\* the select returns: the list is shown, or on an error the list stays
fetchSavedAnswers(s, ok) ==
    /\ casesPc[s] = "fetching"
    /\ casesPc' = [casesPc EXCEPT ![s] = "shown"]
    /\ IF ok
       THEN \E q \in ListSaved(saved_answers, user[s], user[s]) :
               savedAnswers' = [savedAnswers EXCEPT ![s] = q]
       ELSE UNCHANGED savedAnswers
    /\ casesLoading' = [casesLoading EXCEPT ![s] = FALSE]
    /\ UNCHANGED <<refVars, queryVars, pageVars, savedVars, deleting, deleted,
                   adminVars>>

\* handleDelete calls started so far
Started(s) == Len(deleting[s]) + Len(deleted[s])

\* handleDelete(id) is called: the delete is sent; the closure holds the list
\* of this render
handleDelete(s, id) ==
    /\ casesPc[s] = "shown"
    /\ Started("s1") + Started("s2") + Started("s3") < MaxDeletes
    /\ deleting' = [deleting EXCEPT ![s] =
                       Append(@, [id |-> id, savedAnswers |-> savedAnswers[s]])]
    /\ UNCHANGED <<refVars, queryVars, pageVars, savedVars, casesPc, savedAnswers,
                   casesLoading, deleted, adminVars>>

\* savedAnswers.filter(sa => sa.id !== id)
WithoutId(list, id) == SelectSeq(list, LAMBDA sa : sa.id # id)

\* the i-th delete in flight returns: without error the list of its closure,
\* filtered, is shown; an error is logged to the console
handleDeleteDone(s, i, ok) ==
    /\ i \in 1..Len(deleting[s])
    /\ LET d == deleting[s][i]
           err ==   IF ok THEN DeleteError(saved_answers, user[s], d.id)
                    ELSE Some(StorageMsg)
       IN /\ saved_answers' =
                IF ok THEN DeleteSaved(saved_answers, user[s], d.id) ELSE saved_answers
          /\ savedAnswers' =
                IF err = NULL
                THEN [savedAnswers EXCEPT ![s] = WithoutId(d.savedAnswers, d.id)]
                ELSE savedAnswers
          /\ deleted' = [deleted EXCEPT ![s] =
                            Append(@, [id |-> d.id, ok |-> err = NULL])]
    /\ deleting' = [deleting EXCEPT ![s] =
                       [j \in 1..(Len(@) - 1) |-> IF j < i THEN @[j] ELSE @[j + 1]]]
    /\ UNCHANGED <<refVars, queryVars, pageVars, saves, now, casesPc, casesLoading,
                   adminVars>>

----------------------------------------------------------------------------
\* Storage calls made outside the pages

\* what a caller may try to write into a saved row
SavedPatches ==
    {[answer |-> "Take twice the dose"], [user_type |-> "Clinician"],
     [drug_name |-> Codeine], [gene_name |-> CYP2D6]}

\* a signed-in caller sends an update of a saved row with the client's key
ApiUpdateSaved(caller, id, patch) ==
    /\ calls < MaxCalls
    /\ calls' = calls + 1
    /\ saved_answers' = UpdateSaved(saved_answers, caller, id, patch)
    /\ UNCHANGED <<refVars, queryVars, pageVars, saves, now, casesVars, adminRest>>

\* Calls of the storage API on saved_answers and usage_monthly by a signed-in
\* caller, with the client's key and any filter or row: the response is kept

UsagePatches == {[query_count |-> 0]} \cup {[user_id |-> v] : v \in Users}

ApiSelectSaved(caller, u) ==
    /\ calls < MaxCalls
    /\ calls' = calls + 1
    /\ apiResult' =
          Some([caller |-> caller, table |-> "saved_answers", op |-> "SELECT",
                owner |-> u, new_owner |-> u,
                data |-> LET q == SelectSaved(saved_answers, caller, u)
                         IN {q[i] : i \in DOMAIN q},
                error |-> NULL])
    /\ UNCHANGED <<refVars, queryVars, pageVars, savedVars, casesVars, sources,
                   app_admins, ingestion_jobs, adminPage, acked>>

ApiInsertSaved(caller, owner) ==
    /\ calls < MaxCalls
    /\ calls' = calls + 1
    /\ saves < MaxSaves
    /\ saves' = saves + 1
    /\ now' = now + 1
    /\ saved_answers' =
          InsertSaved(saved_answers, caller,
                      [id |-> saves + 1, user_id |-> owner, drug_name |-> Codeine,
                       gene_name |-> CYP2D6, user_type |-> "Patient",
                       answer |-> "Forged", created_at |-> now + 1])
    /\ apiResult' =
          Some([caller |-> caller, table |-> "saved_answers", op |-> "INSERT",
                owner |-> owner, new_owner |-> owner, data |-> {},
                error |-> IF saved_answers' = saved_answers THEN Some(RLSMsg)
                          ELSE NULL])
    /\ UNCHANGED <<refVars, queryVars, pageVars, casesVars, sources, app_admins,
                   ingestion_jobs, adminPage, acked>>

ApiSelectUsage(caller, u, m) ==
    /\ calls < MaxCalls
    /\ calls' = calls + 1
    /\ apiResult' =
          Some([caller |-> caller, table |-> "usage_monthly", op |-> "SELECT",
                owner |-> u, new_owner |-> u,
                data |-> LET q == SelectUsage(usage_monthly, caller, u, m)
                         IN {q[i] : i \in DOMAIN q},
                error |-> NULL])
    /\ UNCHANGED <<refVars, queryVars, pageVars, savedVars, casesVars, sources,
                   app_admins, ingestion_jobs, adminPage, acked>>

ApiInsertUsage(caller, owner, m) ==
    /\ calls < MaxCalls
    /\ calls' = calls + 1
    /\ usage_monthly' =
          InsertUsage(usage_monthly, caller,
                      [user_id |-> owner, month |-> m, query_count |-> 1])
    /\ apiResult' =
          Some([caller |-> caller, table |-> "usage_monthly", op |-> "INSERT",
                owner |-> owner, new_owner |-> owner, data |-> {},
                error |-> IF usage_monthly' = usage_monthly THEN Some(RLSMsg)
                          ELSE NULL])
    /\ UNCHANGED <<refVars, clock, localVars, succeeded, submits, pageVars,
                   savedVars, casesVars, sources, app_admins, ingestion_jobs,
                   adminPage, acked>>

ApiUpdateUsage(caller, u, patch) ==
    /\ calls < MaxCalls
    /\ calls' = calls + 1
    /\ usage_monthly' = PatchUsage(usage_monthly, caller, u, patch)
    /\ apiResult' =
          Some([caller |-> caller, table |-> "usage_monthly", op |-> "UPDATE",
                owner |-> u,
                new_owner |-> IF "user_id" \in DOMAIN patch THEN patch.user_id ELSE u,
                data |-> {},
                error |-> IF "user_id" \in DOMAIN patch /\ patch.user_id # caller
                             /\ \E i \in DOMAIN usage_monthly :
                                   usage_monthly[i].user_id = caller
                                   /\ usage_monthly[i].user_id = u
                          THEN Some(RLSMsg) ELSE NULL])
    /\ UNCHANGED <<refVars, clock, localVars, succeeded, submits, pageVars,
                   savedVars, casesVars, sources, app_admins, ingestion_jobs,
                   adminPage, acked>>

\* the ingestion pipeline, which holds the service key, rewrites reference
\* data: the summaries of the guidelines, the texts of the interactions, the
\* names of the drugs (cut to four characters) or the symbols of the genes
\* (cut to the last three)
Ingest ==
    /\ calls < MaxCalls
    /\ calls' = calls + 1
    /\ \/ /\ guidelines' =
                {[g EXCEPT !.patient_summary = Some("Avoid"),
                           !.clinician_summary = Some("Avoid; use an alternative")] :
                    g \in guidelines}
          /\ UNCHANGED <<drugs, genes, variants, phenotypes, interactions, citations>>
       \/ /\ interactions' =
                {[i EXCEPT !.summary = Some("No clearance"), !.action = Some("Stop")] :
                    i \in interactions}
          /\ UNCHANGED <<drugs, genes, variants, phenotypes, guidelines, citations>>
       \/ /\ \A d \in drugs : Len(d.name) > 4
          /\ drugs' = {[d EXCEPT !.name = SubSeq(d.name, 1, 4)] : d \in drugs}
          /\ UNCHANGED <<genes, variants, phenotypes, guidelines, interactions, citations>>
       \/ /\ \A g \in genes : Len(g.symbol) = 6
          /\ genes' = {[g EXCEPT !.symbol = SubSeq(g.symbol, 4, 6)] : g \in genes}
          /\ UNCHANGED <<drugs, variants, phenotypes, guidelines, interactions, citations>>
    /\ refVars' # refVars
    /\ UNCHANGED <<queryVars, pageVars, savedVars, casesVars, adminRest>>

----------------------------------------------------------------------------
\* Storage: row level security of the reference tables, sources,
\* ingestion_jobs, app_admins and audit_log

IsAdmin(caller) == \E a \in app_admins : a.user_id = caller

RefTables ==
    {"drugs", "genes", "variants", "phenotypes", "guidelines", "interactions",
     "citations"}
Tables == RefTables \cup {"sources", "ingestion_jobs"}
Ops == {"SELECT", "INSERT", "UPDATE", "DELETE"}

\* as Allowed, with sources open to every authenticated caller
AllowedOpenSources(t, op, caller) ==
    CASE t = "sources" -> TRUE
      [] t \in RefTables -> op = "SELECT"
      [] t \in {"ingestion_jobs"} -> op \in {"SELECT", "INSERT"} /\ IsAdmin(caller)
      [] OTHER -> op = "SELECT" /\ IsAdmin(caller)

\* as Allowed, with a policy that lets administrators update ingestion_jobs
AllowedJobsUpdate(t, op, caller) ==
    CASE t = "sources" -> op = "SELECT" \/ IsAdmin(caller)
      [] t \in RefTables -> op = "SELECT"
      [] t \in {"ingestion_jobs"} ->
            op \in {"SELECT", "INSERT", "UPDATE"} /\ IsAdmin(caller)
      [] OTHER -> op = "SELECT" /\ IsAdmin(caller)

\* the policies: an operation on a table without a policy for it is denied to
\* every authenticated caller.  Anyone reads sources and the reference
\* tables; administrators insert, update and delete sources; administrators
\* read and insert ingestion_jobs; administrators read app_admins and
\* audit_log
Allowed(t, op, caller) ==
    CASE t = "sources" -> op = "SELECT" \/ IsAdmin(caller)
      [] t \in RefTables -> op = "SELECT"
      [] t \in {"ingestion_jobs"} -> op \in {"SELECT", "INSERT"} /\ IsAdmin(caller)
      [] OTHER -> op = "SELECT" /\ IsAdmin(caller)

\* the row a caller inserts into a table, and the columns a caller sets in
\* every row of it
NewRow ==
    [drugs |-> [id |-> "d9", name |-> <<"n", "e", "w">>],
     genes |-> [id |-> "g9", symbol |-> <<"n", "e", "w">>],
     variants |-> [id |-> "v9", gene_id |-> "g1", name |-> "*3"],
     phenotypes |-> [id |-> "p9", gene_id |-> "g1", phenotype |-> "Ultrarapid"],
     guidelines |->
        [id |-> "gl9", drug_id |-> "d2", gene_id |-> "g2", source_id |-> NULL,
         evidence_level |-> NULL, patient_summary |-> Some("Avoid"),
         clinician_summary |-> NULL],
     interactions |->
        [id |-> "i9", drug_id |-> "d2", gene_id |-> "g1", phenotype_id |-> NULL,
         guideline_id |-> NULL, action |-> Some("Stop"), summary |-> NULL,
         evidence |-> NULL],
     citations |->
        [guideline_id |-> "gl1", title |-> Some("New"), authors |-> NULL,
         journal |-> NULL, year |-> NULL],
     sources |-> [id |-> "src9", name |-> "FDA", is_active |-> TRUE],
     ingestion_jobs |-> [job_type |-> "Forged", status |-> "completed"]]

Patch ==
    [drugs |-> [name |-> <<"x">>],
     genes |-> [symbol |-> <<"x">>],
     variants |-> [name |-> "*9"],
     phenotypes |-> [phenotype |-> "Changed"],
     guidelines |-> [patient_summary |-> Some("Changed")],
     interactions |-> [action |-> Some("Changed")],
     citations |-> [title |-> Some("Changed")],
     sources |-> [is_active |-> FALSE],
     ingestion_jobs |-> [status |-> "failed"]]

Patched(r, patch) ==
    [f \in DOMAIN r |-> IF f \in DOMAIN patch THEN patch[f] ELSE r[f]]

\* a table after a write that the policies admit, without filter: the new row
\* is added, every row is patched, every row is removed
Written(rows, op, t) ==
    CASE op = "INSERT" -> rows \cup {NewRow[t]}
      [] op = "UPDATE" -> {Patched(r, Patch[t]) : r \in rows}
      [] op = "DELETE" -> {}

\* as InsertJob, but a job type that has a pending row gets no second one
InsertJobOnce(rows, job) ==
    IF \E i \in DOMAIN rows :
          rows[i].job_type = job.job_type /\ rows[i].status = "pending"
       THEN rows
       ELSE Append(rows, job)

\* the rows in insertion order: the place of a row stands for its id and its
\* created_at
InsertJob(rows, job) == Append(rows, job)

WrittenJobs(rows, op) ==
    CASE op = "INSERT" -> InsertJob(rows, NewRow["ingestion_jobs"])
      [] op = "UPDATE" ->
            [i \in DOMAIN rows |-> Patched(rows[i], Patch["ingestion_jobs"])]
      [] op = "DELETE" -> <<>>

\* as SourcesDeleted, with ON DELETE CASCADE
SourcesDeletedCascade(rows, ids) ==
    {r \in rows : ~(r.source_id # NULL /\ r.source_id[1] \in ids)}

\* guidelines.source_id is ON DELETE SET NULL
SourcesDeleted(rows, ids) ==
    {IF r.source_id # NULL /\ r.source_id[1] \in ids
        THEN [r EXCEPT !.source_id = NULL] ELSE r : r \in rows}

Table(t) ==
    CASE t = "drugs" -> drugs
      [] t = "genes" -> genes
      [] t = "variants" -> variants
      [] t = "phenotypes" -> phenotypes
      [] t = "guidelines" -> guidelines
      [] t = "interactions" -> interactions
      [] t = "citations" -> citations
      [] t = "sources" -> sources
      [] t = "ingestion_jobs" -> {ingestion_jobs[i] : i \in DOMAIN ingestion_jobs}

\* a call of the storage API by an authenticated caller from outside the
\* pages: the signed-in client holds the caller's token, and the policies
\* are all that stands between it and the tables
ApiCall(caller, t, op) ==
    /\ calls < MaxCalls
    /\ calls' = calls + 1
    /\ LET ok == Allowed(t, op, caller)
           w == ok /\ op # "SELECT"
           set(name, rows) == IF w /\ t = name THEN Written(rows, op, t) ELSE rows
       IN  /\ drugs' = set("drugs", drugs)
           /\ genes' = set("genes", genes)
           /\ variants' = set("variants", variants)
           /\ phenotypes' = set("phenotypes", phenotypes)
           /\ interactions' = set("interactions", interactions)
           /\ citations' = set("citations", citations)
           /\ sources' = set("sources", sources)
           /\ guidelines' =
                 IF w /\ t = "sources" /\ op = "DELETE"
                    THEN SourcesDeleted(guidelines, {r.id : r \in sources})
                    ELSE set("guidelines", guidelines)
           /\ ingestion_jobs' =
                 IF w /\ t = "ingestion_jobs"
                    THEN WrittenJobs(ingestion_jobs, op) ELSE ingestion_jobs
           /\ apiResult' =
                 Some([caller |-> caller, table |-> t, op |-> op,
                       data |-> IF ok /\ op = "SELECT" THEN Table(t) ELSE {},
                       error |-> IF ~ok /\ op = "INSERT" THEN Some(RLSMsg) ELSE NULL])
    /\ UNCHANGED <<queryVars, pageVars, savedVars, casesVars, app_admins, adminPage,
                   acked>>

----------------------------------------------------------------------------
\* Admin page: triggerWebhook

JobTypes == {"FDA Ingestion", "Gene/Variant Ingestion", "Guidelines Refresh"}

\* how the POST ends: a 2xx status, another status, or no response at all
HttpOutcomes == {"ok", "status", "network"}

JobsLimit == 50

\* the button of a job type is pressed: the buttons are disabled while a
\* webhook is running, and the route of the page admits administrators only
triggerWebhook(s, jobType) ==
    /\ IsAdmin(user[s])
    /\ webhookLoading[s] = NULL
    /\ adminPc[s] = "idle"
    /\ calls < MaxCalls
    /\ calls' = calls + 1
    /\ webhookLoading' = [webhookLoading EXCEPT ![s] = Some(jobType)]
    /\ adminPc' = [adminPc EXCEPT ![s] = "post"]
    /\ UNCHANGED <<refVars, queryVars, pageVars, savedVars, casesVars, pageSources, sources,
                   app_admins, ingestion_jobs, toast, jobs, fetching, apiResult,
                   acked>>

\* the POST is answered: anything but response.ok throws, and the catch shows
\* the error and the finally re-enables the buttons
WebhookResponse(s, http) ==
    /\ adminPc[s] = "post"
    /\ IF http = "ok"
          THEN /\ acked' = acked + 1
               /\ adminPc' = [adminPc EXCEPT ![s] = "insert"]
               /\ UNCHANGED <<toast, webhookLoading>>
          ELSE /\ toast' = [toast EXCEPT ![s] =
                    Some([message |-> IF http = "status" THEN "Webhook failed"
                                      ELSE "Failed to fetch",
                          type |-> "error"])]
               /\ webhookLoading' = [webhookLoading EXCEPT ![s] = NULL]
               /\ adminPc' = [adminPc EXCEPT ![s] = "idle"]
               /\ UNCHANGED acked
    /\ UNCHANGED <<refVars, queryVars, pageVars, savedVars, casesVars, pageSources, sources,
                   app_admins, ingestion_jobs, jobs, fetching, apiResult, calls>>

\* the insert of the job row is answered, and its answer is not read: the
\* success toast is shown, fetchJobs is started and not awaited, the buttons
\* are re-enabled
RecordJob(s, ok) ==
    /\ adminPc[s] = "insert"
    /\ ingestion_jobs' =
          IF ok /\ Allowed("ingestion_jobs", "INSERT", user[s])
             THEN InsertJob(ingestion_jobs,
                            [job_type |-> webhookLoading[s][1], status |-> "pending"])
             ELSE ingestion_jobs
    /\ toast' = [toast EXCEPT ![s] =
          Some([message |-> "triggered successfully", type |-> "success"])]
    /\ fetching' = [fetching EXCEPT ![s] = @ + 1]
    /\ webhookLoading' = [webhookLoading EXCEPT ![s] = NULL]
    /\ adminPc' = [adminPc EXCEPT ![s] = "idle"]
    /\ UNCHANGED <<refVars, queryVars, pageVars, savedVars, casesVars, pageSources, sources,
                   app_admins, jobs, apiResult, acked, calls>>

Newest(rows) == [i \in 1..Len(rows) |-> rows[Len(rows) + 1 - i]]
Limit(rows, n) == SubSeq(rows, 1, IF Len(rows) < n THEN Len(rows) ELSE n)

\* a fetchJobs in flight returns: the newest JobsLimit rows the caller may
\* read replace the list; a failure throws out of the call and the list stays
fetchJobs(s, ok) ==
    /\ fetching[s] > 0
    /\ fetching' = [fetching EXCEPT ![s] = @ - 1]
    /\ jobs' = [jobs EXCEPT ![s] =
          IF ~ok THEN @
          ELSE IF Allowed("ingestion_jobs", "SELECT", user[s])
                  THEN Limit(Newest(ingestion_jobs), JobsLimit)
                  ELSE <<>>]
    /\ UNCHANGED <<refVars, queryVars, pageVars, savedVars, casesVars, pageSources, sources,
                   app_admins, ingestion_jobs, toast, webhookLoading, adminPc,
                   apiResult, acked, calls>>

\* the timer of showToast fires
hideToast(s) ==
    /\ toast[s] # NULL
    /\ toast' = [toast EXCEPT ![s] = NULL]
    /\ UNCHANGED <<refVars, queryVars, pageVars, savedVars, casesVars, pageSources, sources,
                   app_admins, ingestion_jobs, jobs, webhookLoading, adminPc,
                   fetching, apiResult, acked, calls>>

\* .from('sources').delete().eq('id', id) as caller: the rows the USING of
\* "Admins can delete sources" lets the caller delete
DeleteSource(rows, caller, id) ==
    IF Allowed("sources", "DELETE", caller) THEN {r \in rows : r.id # id} ELSE rows

\* the page is opened on its sources tab by an administrator: fetchSources;
\* a failure is logged and the list stays.  The list is kept without its
\* order
fetchData(s, ok) ==
    /\ IsAdmin(user[s])
    /\ pageSources' = [pageSources EXCEPT ![s] = IF ok THEN sources ELSE @]
    /\ UNCHANGED <<refVars, queryVars, pageVars, savedVars, casesVars, sources,
                   app_admins, ingestion_jobs, toast, jobs, webhookLoading, adminPc,
                   fetching, apiResult, acked, calls>>

\* the delete button of a listed source, confirmed: the delete is answered;
\* an error is shown in the toast; otherwise the success toast is shown and
\* fetchSources replaces the list, unless it fails
handleDeleteSource(s, id, ok, okFetch) ==
    /\ IsAdmin(user[s])
    /\ id \in {r.id : r \in pageSources[s]}
    /\ calls < MaxCalls
    /\ calls' = calls + 1
    /\ IF ok
          THEN /\ sources' = DeleteSource(sources, user[s], id)
               /\ guidelines' =
                     SourcesDeleted(guidelines,
                                    {r.id : r \in sources} \ {r.id : r \in sources'})
               /\ toast' = [toast EXCEPT ![s] =
                     Some([message |-> "Source deleted successfully",
                           type |-> "success"])]
               /\ pageSources' = [pageSources EXCEPT ![s] =
                     IF okFetch THEN sources' ELSE @]
          ELSE /\ toast' = [toast EXCEPT ![s] =
                     Some([message |-> StorageMsg, type |-> "error"])]
               /\ UNCHANGED <<sources, guidelines, pageSources>>
    /\ UNCHANGED <<drugs, genes, variants, phenotypes, interactions, citations,
                   queryVars, pageVars, savedVars, casesVars, app_admins,
                   ingestion_jobs, jobs, webhookLoading, adminPc, fetching,
                   apiResult, acked>>


----------------------------------------------------------------------------
\* Specifications

\* The quota under concurrency: any interleaving of the three sessions, each
\* asking for warfarin and CYP2C9, with every storage call answered; the
\* month may change.
Next ==
    \/ \E s \in Sessions : handleSubmit(s, <<"w", "a", "r", "f">>, <<"2", "c", "9">>)
    \/ \E s \in Sessions : ReadUsage(s, TRUE)
    \/ \E s \in Sessions : LookupDrug(s, TRUE)
    \/ \E s \in Sessions : LookupGene(s, TRUE)
    \/ \E s \in Sessions : FetchInteractions(s, TRUE)
    \/ \E s \in Sessions : FetchCitations(s, TRUE)
    \/ \E s \in Sessions : WriteUsage(s, TRUE)
    \/ Tick

Spec == Init /\ [][Next]_vars

\* One query of a user after another: a user submits only when no query of
\* theirs is running, and every storage call succeeds.  A query has an answer
\* or names an unknown drug.
TypedQuota ==
    {<<<<"w", "a", "r", "f">>, <<"2", "c", "9">>>>,
     <<<<"z", "z">>, <<"2", "c", "9">>>>}

handleSubmitSeq(s, d, g) ==
    /\ \A t \in Sessions : user[t] = user[s] => ~loading[t]
    /\ handleSubmit(s, d, g)

NextSeq ==
    \/ \E s \in Sessions, q \in TypedQuota : handleSubmitSeq(s, q[1], q[2])
    \/ \E s \in Sessions : ReadUsage(s, TRUE)
    \/ \E s \in Sessions : LookupDrug(s, TRUE)
    \/ \E s \in Sessions : LookupGene(s, TRUE)
    \/ \E s \in Sessions : FetchInteractions(s, TRUE)
    \/ \E s \in Sessions : FetchCitations(s, TRUE)
    \/ \E s \in Sessions : WriteUsage(s, TRUE)
    \/ Tick

SpecSeq == Init /\ [][NextSeq]_vars

\* The outcomes of a query: two sessions of one user, everything a user may
\* type, any storage call may fail.
FlowSessions == {"s1", "s2"}

NextFlow ==
    \/ \E s \in FlowSessions, q \in Typed : handleSubmit(s, q[1], q[2])
    \/ \E s \in FlowSessions, ok \in BOOLEAN : ReadUsage(s, ok)
    \/ \E s \in FlowSessions, ok \in BOOLEAN : LookupDrug(s, ok)
    \/ \E s \in FlowSessions, ok \in BOOLEAN : LookupGene(s, ok)
    \/ \E s \in FlowSessions, ok \in BOOLEAN : FetchInteractions(s, ok)
    \/ \E s \in FlowSessions, ok \in BOOLEAN : FetchCitations(s, ok)
    \/ \E s \in FlowSessions, ok \in BOOLEAN : WriteUsage(s, ok)

SpecFlow == Init /\ [][NextFlow]_vars

\* Termination of a query: one page, everything a user may type, any storage
\* call may fail.  Every storage call that was sent returns at some time, with
\* rows or with an error, and the handler then runs on: each return step of a
\* query is weakly fair.  Nothing obliges the user to submit.
LiveSessions == {"s1"}

StorageReturns(s) ==
    \/ \E ok \in BOOLEAN : ReadUsage(s, ok)
    \/ \E ok \in BOOLEAN : LookupDrug(s, ok)
    \/ \E ok \in BOOLEAN : LookupGene(s, ok)
    \/ \E ok \in BOOLEAN : FetchInteractions(s, ok)
    \/ \E ok \in BOOLEAN : FetchCitations(s, ok)
    \/ \E ok \in BOOLEAN : WriteUsage(s, ok)

NextLive ==
    \/ \E s \in LiveSessions, q \in Typed : handleSubmit(s, q[1], q[2])
    \/ \E s \in LiveSessions : StorageReturns(s)

SpecLive ==
    /\ Init
    /\ [][NextLive]_vars
    /\ \A s \in LiveSessions : WF_vars(StorageReturns(s))

\* Rendering: one session queries warfarin and CYP2C9 in either view, over
\* every content of the one interaction and its guideline and phenotype.
Summaries(text) == {NULL, Some(""), Some(text)}

RenderGuidelines ==
    {[id |-> "gl1", drug_id |-> "d1", gene_id |-> "g1", source_id |-> Some("src1"),
      evidence_level |-> l, patient_summary |-> p, clinician_summary |-> c] :
        l \in Summaries("High"), p \in Summaries("Reduce dose"),
        c \in Summaries("Reduce starting dose by 50%")}

RenderInteractions ==
    {[id |-> "i1", drug_id |-> "d1", gene_id |-> "g1",
      phenotype_id |-> ph, guideline_id |-> Some("gl1"),
      action |-> a, summary |-> m, evidence |-> e] :
        ph \in {NULL, Some("p1")}, a \in {NULL, Some("Lower dose")},
        m \in Summaries("Slow clearance"), e \in {NULL, Some("CPIC A")}}

RenderPhenotypes ==
    {[id |-> "p1", gene_id |-> "g1", phenotype |-> t] : t \in {"", "Poor Metabolizer"}}

InitRender ==
    /\ drugs = SampleDrugs
    /\ genes = SampleGenes
    /\ variants = SampleVariants
    /\ \E ph \in RenderPhenotypes : phenotypes = {ph}
    /\ \E g \in RenderGuidelines : guidelines = {g}
    /\ \E i \in RenderInteractions : interactions = {i}
    /\ citations = SampleCitations
    /\ InitUsage({0})
    /\ InitPages
    /\ InitOther

NextRender ==
    \/ handleSubmit("s1", <<"w", "a", "r", "f">>, <<"2", "c", "9">>)
    \/ ReadUsage("s1", TRUE)
    \/ LookupDrug("s1", TRUE)
    \/ LookupGene("s1", TRUE)
    \/ FetchInteractions("s1", TRUE)
    \/ FetchCitations("s1", TRUE)
    \/ WriteUsage("s1", TRUE)
    \/ \E t \in {"Patient", "Clinician"} : setUserType("s1", t)

SpecRender == InitRender /\ [][NextRender]_vars

\* Resolution: the first query of one session, with every text of up to
\* MaxLen characters, wildcards included, against every stored name of up to
\* MaxLen characters, on the drug side or on the gene side.
Texts(alphabet, n) == UNION {[1..k -> alphabet] : k \in 1..n}

StoredNames == Texts({"W", "w", "a"}, MaxLen)
TypedTexts == Texts({"W", "w", "a", "_", "%"}, MaxLen)

InitResolve ==
    /\ \/ \E n \in StoredNames :
            /\ drugs = {[id |-> "d1", name |-> n]}
            /\ genes = {[id |-> "g1", symbol |-> CYP2C9]}
       \/ \E n \in StoredNames :
            /\ drugs = {[id |-> "d1", name |-> Warfarin]}
            /\ genes = {[id |-> "g1", symbol |-> n]}
    /\ variants = SampleVariants
    /\ phenotypes = SamplePhenotypes
    /\ guidelines = SampleGuidelines
    /\ interactions = SampleInteractions
    /\ citations = SampleCitations
    /\ InitUsage({0})
    /\ InitPages
    /\ InitOther

NextResolve ==
    \/ \E t \in TypedTexts :
         \/ /\ pc["s1"] = "idle"
            /\ drugs # {[id |-> "d1", name |-> Warfarin]}
            /\ handleSubmit("s1", t, <<"2", "c", "9">>)
         \/ /\ pc["s1"] = "idle"
            /\ genes # {[id |-> "g1", symbol |-> CYP2C9]}
            /\ handleSubmit("s1", <<"w", "a", "r", "f">>, t)
    \/ ReadUsage("s1", TRUE)
    \/ LookupDrug("s1", TRUE)
    \/ LookupGene("s1", TRUE)
    \/ FetchInteractions("s1", TRUE)
    \/ FetchCitations("s1", TRUE)
    \/ WriteUsage("s1", TRUE)

SpecResolve == InitResolve /\ [][NextResolve]_vars

\* Saving: one session queries warfarin and CYP2C9 once, in either view, and
\* saves what is shown; once a row is saved the reference data is rewritten,
\* and callers try to update saved rows.
InitSave ==
    /\ drugs = SampleDrugs
    /\ genes = SampleGenes
    /\ variants = SampleVariants
    /\ phenotypes = SamplePhenotypes
    /\ guidelines = SampleGuidelines
    /\ interactions = SampleInteractions
    /\ citations = SampleCitations
    /\ InitUsage({0})
    /\ InitPages
    /\ InitOther

NextSave ==
    \/ submits = 0 /\ handleSubmit("s1", <<"w", "a", "r", "f">>, <<"2", "c", "9">>)
    \/ ReadUsage("s1", TRUE)
    \/ LookupDrug("s1", TRUE)
    \/ LookupGene("s1", TRUE)
    \/ FetchInteractions("s1", TRUE)
    \/ FetchCitations("s1", TRUE)
    \/ WriteUsage("s1", TRUE)
    \/ \E t \in {"Patient", "Clinician"} : setUserType("s1", t)
    \/ \E ok \in BOOLEAN : handleSave("s1", ok)
    \/ hideSaveSuccess("s1")
    \/ \E caller \in Users, i \in DOMAIN saved_answers, patch \in SavedPatches :
          ApiUpdateSaved(caller, saved_answers[i].id, patch)
    \/ saved_answers # <<>> /\ Ingest

SpecSave == InitSave /\ [][NextSave]_vars

\* Saved answers: two users open their saved answers and delete, by any id;
\* any storage call may fail.  The table starts with up to MaxSaves rows of
\* the two users, saved one after another.
CasesSessions == {"s1", "s3"}

PriorSaved ==
    UNION {{[i \in 1..n |->
                [id |-> i, user_id |-> owner[i], drug_name |-> Warfarin,
                 gene_name |-> CYP2C9, user_type |-> "Patient",
                 answer |-> "Reduce dose", created_at |-> i]] :
              owner \in [1..n -> Users]} : n \in 0..MaxSaves}

InitCasesSpec ==
    /\ drugs = SampleDrugs
    /\ genes = SampleGenes
    /\ variants = SampleVariants
    /\ phenotypes = SamplePhenotypes
    /\ guidelines = SampleGuidelines
    /\ interactions = SampleInteractions
    /\ citations = SampleCitations
    /\ InitUsage({0})
    /\ InitPages
    /\ \E rows \in PriorSaved :
          /\ saved_answers = rows
          /\ saves = Len(rows)
          /\ now = Len(rows)
    /\ InitCases
    /\ InitAdmin

NextCases ==
    \/ \E s \in CasesSessions : mountCases(s)
    \/ \E s \in CasesSessions, ok \in BOOLEAN : fetchSavedAnswers(s, ok)
    \/ \E s \in CasesSessions, id \in SavedIds : handleDelete(s, id)
    \/ \E s \in CasesSessions, i \in 1..MaxDeletes, ok \in BOOLEAN :
          handleDeleteDone(s, i, ok)

SpecCases == InitCasesSpec /\ [][NextCases]_vars

\* The Admin page and ingestion_jobs: the administrator u1 triggers webhooks
\* on two pages, the POST ends in every way, and any user calls any
\* operation on ingestion_jobs.  The insert of the job row is answered.
AdminSessions == {"s1", "s2", "s3"}

NextAdmin ==
    \/ \E s \in AdminSessions, jobType \in JobTypes : triggerWebhook(s, jobType)
    \/ \E s \in AdminSessions, http \in HttpOutcomes : WebhookResponse(s, http)
    \/ \E s \in AdminSessions : RecordJob(s, TRUE)
    \/ \E s \in AdminSessions, ok \in BOOLEAN : fetchJobs(s, ok)
    \/ \E s \in AdminSessions : hideToast(s)
    \/ \E caller \in Users, op \in Ops : ApiCall(caller, "ingestion_jobs", op)

InitAdminSpec ==
    /\ drugs = SampleDrugs
    /\ genes = SampleGenes
    /\ variants = SampleVariants
    /\ phenotypes = SamplePhenotypes
    /\ guidelines = SampleGuidelines
    /\ interactions = SampleInteractions
    /\ citations = SampleCitations
    /\ InitUsage({0})
    /\ InitPages
    /\ InitOther

SpecAdmin == InitAdminSpec /\ [][NextAdmin]_vars

\* The storage API: any user calls any operation on sources, ingestion_jobs
\* and the reference tables.
NextStorage ==
    \E caller \in Users, t \in Tables, op \in Ops : ApiCall(caller, t, op)

SpecStorage == InitAdminSpec /\ [][NextStorage]_vars

\* Several interactions of one pair: warfarin and CYP2C9 have a second
\* interaction under a guideline and citations of its own; one session asks
\* for the pair in either view, storage returns the rows in any order, and
\* every storage call is answered.
SecondInteraction ==
    [id |-> "i3", drug_id |-> "d1", gene_id |-> "g1",
     phenotype_id |-> NULL, guideline_id |-> Some("gl2"),
     action |-> Some("Monitor INR"), summary |-> Some("Variable response"),
     evidence |-> Some("FDA label")]

SecondGuideline ==
    [id |-> "gl2", drug_id |-> "d1", gene_id |-> "g1", source_id |-> NULL,
     evidence_level |-> Some("Moderate"),
     patient_summary |-> Some("Check blood tests often"),
     clinician_summary |-> Some("Monitor INR weekly")]

SecondCitation ==
    [guideline_id |-> "gl2", title |-> Some("FDA warfarin label"),
     authors |-> Some("FDA"), journal |-> Some("Label"), year |-> Some(2010)]

InitFirst ==
    /\ drugs = SampleDrugs
    /\ genes = SampleGenes
    /\ variants = SampleVariants
    /\ phenotypes = SamplePhenotypes
    /\ guidelines = SampleGuidelines \cup {SecondGuideline}
    /\ interactions = SampleInteractions \cup {SecondInteraction}
    /\ citations = SampleCitations \cup {SecondCitation}
    /\ InitUsage({0})
    /\ InitPages
    /\ InitOther

NextFirst ==
    \/ handleSubmit("s1", <<"w", "a", "r", "f">>, <<"2", "c", "9">>)
    \/ \E t \in {"Patient", "Clinician"} : setUserType("s1", t)
    \/ ReadUsage("s1", TRUE)
    \/ LookupDrug("s1", TRUE)
    \/ LookupGene("s1", TRUE)
    \/ FetchInteractions("s1", TRUE)
    \/ FetchCitations("s1", TRUE)
    \/ WriteUsage("s1", TRUE)

SpecFirst == InitFirst /\ [][NextFirst]_vars

\* The owner's rows: both users hold saved answers and usage rows, and either
\* user reads, inserts and updates in both tables with any filter and any
\* owner written into the row.
InitOwner ==
    /\ drugs = SampleDrugs
    /\ genes = SampleGenes
    /\ variants = SampleVariants
    /\ phenotypes = SamplePhenotypes
    /\ guidelines = SampleGuidelines
    /\ interactions = SampleInteractions
    /\ citations = SampleCitations
    /\ usage_monthly =
          <<[user_id |-> "u1", month |-> FirstMonth, query_count |-> 3],
            [user_id |-> "u2", month |-> FirstMonth, query_count |-> 5]>>
    /\ succeeded = [k \in Users \X Months |->
                       IF k[2] # FirstMonth THEN 0 ELSE IF k[1] = "u1" THEN 3 ELSE 5]
    /\ InitPages
    /\ \E rows \in PriorSaved :
          /\ Len(rows) = 2
          /\ saved_answers = rows
          /\ saves = 2
          /\ now = 2
    /\ InitCases
    /\ InitAdmin

NextOwner ==
    \/ \E caller \in Users, u \in Users : ApiSelectSaved(caller, u)
    \/ \E caller \in Users, owner \in Users : ApiInsertSaved(caller, owner)
    \/ \E caller \in Users, i \in DOMAIN saved_answers, patch \in SavedPatches :
          ApiUpdateSaved(caller, saved_answers[i].id, patch)
    \/ \E caller \in Users, u \in Users, m \in Months : ApiSelectUsage(caller, u, m)
    \/ \E caller \in Users, owner \in Users, m \in Months :
          ApiInsertUsage(caller, owner, m)
    \/ \E caller \in Users, u \in Users, patch \in UsagePatches :
          ApiUpdateUsage(caller, u, patch)

SpecOwner == InitOwner /\ [][NextOwner]_vars

\* Sources: the administrator opens the Admin page in two sessions and
\* deletes listed sources, either user calls any operation on sources, and any
\* call of the page may fail.  The source CPIC is referenced by a guideline,
\* a source that is added by none, and one guideline has no source.

InitSources ==
    /\ drugs = SampleDrugs
    /\ genes = SampleGenes
    /\ variants = SampleVariants
    /\ phenotypes = SamplePhenotypes
    /\ guidelines = SampleGuidelines \cup {SecondGuideline}
    /\ interactions = SampleInteractions \cup {SecondInteraction}
    /\ citations = SampleCitations \cup {SecondCitation}
    /\ InitUsage({0})
    /\ InitPages
    /\ InitSaved
    /\ InitCases
    /\ InitAdmin

NextSources ==
    \/ \E s \in Sessions, ok \in BOOLEAN : fetchData(s, ok)
    \/ \E s \in Sessions, id \in {"src1", "src9"}, ok \in BOOLEAN,
          okFetch \in BOOLEAN : handleDeleteSource(s, id, ok, okFetch)
    \/ \E s \in Sessions : hideToast(s)
    \/ \E caller \in Users, op \in Ops : ApiCall(caller, "sources", op)

SpecSources == InitSources /\ [][NextSources]_vars

----------------------------------------------------------------------------
\* Properties

\* the rows for (u, m), and the counter stored for (u, m): 0 without a row
RowsIn(rows, u, m) == SelectSeq(rows, LAMBDA r : r.user_id = u /\ r.month = m)
CountIn(rows, u, m) ==
    IF RowsIn(rows, u, m) = <<>> THEN 0 ELSE RowsIn(rows, u, m)[1].query_count
UsageRows(u, m) == RowsIn(usage_monthly, u, m)
StoredCount(u, m) == CountIn(usage_monthly, u, m)

\* the step in which the running query of s gets its usage read answered
UsageAnswered(s) == pc[s] = "usage" /\ pc'[s] # "usage"

\* the step in which the query of s ends with its answer shown
EndsWithAnswer(s) == pc[s] = "write" /\ pc'[s] = "end"

C2_AdmittedOnItsRead ==
    [][\A s \in Sessions :
          EndsWithAnswer(s)
          => (usageData[s] = NULL \/ usageData[s][1].query_count < QUOTA)]_vars

\* u1 started with QUOTA - 1, its two sessions queried once each, both were
\* answered: QUOTA + 1 queries succeeded in the month
C2_Witness ==
    /\ submits = 2
    /\ pc["s1"] = "end" /\ result["s1"] # NULL
    /\ pc["s2"] = "end" /\ result["s2"] # NULL
    /\ succeeded[<<"u1", FirstMonth>>] = QUOTA + 1
    /\ succeeded[<<"u1", FirstMonth>>] > QUOTA

\* C3: the usage write stores the counter the query read plus one, whatever
\* is stored by then, and the insert of a first query is dropped when a row
\* exists by then; the stored counter never exceeds the number of queries
\* that succeeded, and can be smaller (the witness).
C3_LostUpdate ==
    /\ [](\A u \in Users, m \in Months : StoredCount(u, m) <= succeeded[<<u, m>>])
    /\ [][\A s \in Sessions :
            EndsWithAnswer(s)
            => CountIn(usage_monthly', user[s], currentMonth[s]) =
                 IF usageData[s] # NULL THEN usageData[s][1].query_count + 1
                 ELSE IF UsageRows(user[s], currentMonth[s]) # <<>>
                      THEN StoredCount(user[s], currentMonth[s])
                 ELSE 1]_vars

\* both races in one state: in the first month the two sessions of u1 updated
\* the row of QUOTA - 1 concurrently, in the next month they made the first
\* query concurrently; each month counts one query less than succeeded
C3_Witness ==
    LET m2 == ISOMonth(NextMonth(FirstDate))
    IN /\ submits = 4
       /\ succeeded[<<"u1", FirstMonth>>] = QUOTA + 1
       /\ StoredCount("u1", FirstMonth) = QUOTA
       /\ succeeded[<<"u1", m2>>] = 2
       /\ StoredCount("u1", m2) = 1

\* C4: usage_monthly holds at most one row per (user_id, month).
C4_UniqueUserMonth ==
    \A u \in Users, m \in Months : Len(UsageRows(u, m)) <= 1

\* the two sessions of u1 made the first query of the month concurrently and
\* u2 made one: all three were answered and there is one row per user
C4_Witness ==
    /\ submits = 3
    /\ \A s \in Sessions : pc[s] = "end" /\ result[s] # NULL
    /\ succeeded[<<"u1", FirstMonth>>] = 2
    /\ succeeded[<<"u2", FirstMonth>>] = 1
    /\ Len(UsageRows("u1", FirstMonth)) = 1
    /\ Len(usage_monthly) = 2

C6_FailedQueryNotCharged ==
    [][\A s \in Sessions :
          (pc'[s] # pc[s] /\ ~EndsWithAnswer(s)) => usage_monthly' = usage_monthly]_vars

\* the usage read of s1 failed and s2 found no interaction; nothing is stored
C6_Witness ==
    /\ submits = 2
    /\ pc["s1"] = "caught" /\ error["s1"] = StorageMsg
    /\ pc["s2"] = "ret87" /\ error["s2"] = NotFoundMsg
    /\ usage_monthly = <<>>

\* text x occurs in text y as a contiguous run
IsSubstring(x, y) ==
    \E i \in 0..(Len(y) - Len(x)) : SubSeq(y, i + 1, i + Len(x)) = x

DrugContains(s) ==
    \E d \in drugs : IsSubstring(LowerSeq(drugInput[s]), LowerSeq(d.name))
GeneContains(s) ==
    \E g \in genes : IsSubstring(LowerSeq(geneInput[s]), LowerSeq(g.symbol))

\* the query of s resolved its drug, and then its gene, exactly when the
\* stored names contain the inputs
ResolvedAsContained(s) ==
    /\ pc[s] = "gene" => (drugData[s] # NULL <=> DrugContains(s))
    /\ pc[s] = "ret68" => ~(DrugContains(s) /\ GeneContains(s))
    /\ pc[s] \in {"interactions", "citations", "write", "end", "ret87", "caught"}
          => (DrugContains(s) /\ GeneContains(s))

\* C7: the drug is resolved exactly when the lower-cased input is a
\* substring of a lower-cased stored name, and the gene likewise.
C7_SubstringMatch == \A s \in Sessions : ResolvedAsContained(s)

\* what does hold: C7 for the inputs that hold neither % nor _
PlainText(t) == \A i \in 1..Len(t) : t[i] \notin {"%", "_"}
PlainTextMatch ==
    \A s \in Sessions :
        (PlainText(drugInput[s]) /\ PlainText(geneInput[s])) => ResolvedAsContained(s)

\* C8: a query whose drug is not resolved, whose gene is not resolved or
\* whose resolved pair has no interaction ends in one and the same view: the
\* message "Not in database yet.", no answer, no limit notice.
NotFoundShown(s) ==
    /\ error'[s] = NotFoundMsg
    /\ result'[s] = NULL
    /\ ~limitReached'[s]
    /\ ~loading'[s]

C8_NotFoundAlike ==
    [][\A s \in Sessions :
          /\ (pc[s] = "gene" /\ pc'[s] # "gene" /\ drugData[s] = NULL)
                => NotFoundShown(s)
          /\ (pc[s] = "gene" /\ pc'[s] # "gene" /\ GeneMatches(geneInput[s]) = {})
                => NotFoundShown(s)
          /\ (pc[s] = "interactions" /\ pc'[s] # "interactions"
              /\ InteractionsOf(drugData[s][1].id, geneData[s][1].id) = {<<>>})
                => NotFoundShown(s)]_vars

\* s1 typed an unknown drug and s2 a pair without interaction: both pages show
\* the same message and no answer
C8_Witness ==
    /\ pc["s1"] = "ret68" /\ DrugMatches(drugInput["s1"]) = {}
    /\ pc["s2"] = "ret87" /\ DrugMatches(drugInput["s2"]) # {}
    /\ GeneMatches(geneInput["s2"]) # {}
    /\ error["s1"] = error["s2"] /\ error["s1"] = NotFoundMsg
    /\ result["s1"] = NULL /\ result["s2"] = NULL

\* the interaction and the guideline of the rendering specification
TheInteraction == CHOOSE i \in interactions : i.drug_id = "d1" /\ i.gene_id = "g1"
TheGuideline == CHOOSE g \in guidelines : g.id = "gl1"

\* a text is present when it is neither NULL nor empty
Present(a) == a # NULL /\ a[1] # ""

\* C9: the Patient answer is the guideline's patient_summary when present,
\* otherwise the interaction's summary when present, otherwise
\* "No information available."
C9_PatientAnswer ==
    \A s \in Sessions :
        (result[s] # NULL /\ qUserType[s] = "Patient")
        => result[s][1].answer =
             IF Present(TheGuideline.patient_summary)
             THEN TheGuideline.patient_summary[1]
             ELSE IF Present(TheInteraction.summary)
                  THEN TheInteraction.summary[1]
             ELSE "No information available."

\* the end-to-end scenario: the first query of the month, in Patient view,
\* under a guideline whose patient_summary is "Reduce dose"
C9_Witness ==
    /\ pc["s1"] = "end" /\ qUserType["s1"] = "Patient"
    /\ TheGuideline.patient_summary = Some("Reduce dose")
    /\ result["s1"] # NULL /\ result["s1"][1].answer = "Reduce dose"
    /\ StoredCount("u1", FirstMonth) = 1

\* what a section may show when the claim leaves it open
ShownTexts ==
    {"null", "undefined", "", "N/A", "Lower dose", "CPIC A", "Slow clearance",
     "Reduce starting dose by 50%"}

\* C10: the Clinician answer is, in this order, the clinician_summary (the
\* interaction's summary when that is absent), then the lines Action,
\* Evidence, Phenotype and Evidence Level; Phenotype and Evidence Level show
\* "N/A" when absent.
C10_ClinicianAnswer ==
    \A s \in Sessions :
        (result[s] # NULL /\ qUserType[s] = "Clinician")
        => \E main, action, evidence \in ShownTexts :
             /\ Present(TheGuideline.clinician_summary)
                   => main = TheGuideline.clinician_summary[1]
             /\ (~Present(TheGuideline.clinician_summary) /\ Present(TheInteraction.summary))
                   => main = TheInteraction.summary[1]
             /\ Present(TheInteraction.action) => action = TheInteraction.action[1]
             /\ Present(TheInteraction.evidence) => evidence = TheInteraction.evidence[1]
             /\ result[s][1].answer =
                  main
                  \o "\n\nAction: " \o action
                  \o "\n\nEvidence: " \o evidence
                  \o "\n\nPhenotype: "
                  \o (IF Present(PhenotypeLabel(Joined(TheInteraction)))
                      THEN PhenotypeLabel(Joined(TheInteraction))[1] ELSE "N/A")
                  \o "\n\nEvidence Level: "
                  \o (IF Present(TheGuideline.evidence_level)
                      THEN TheGuideline.evidence_level[1] ELSE "N/A")

\* a Clinician answer without clinician_summary, phenotype and evidence level
C10_Witness ==
    /\ pc["s1"] = "end" /\ qUserType["s1"] = "Clinician"
    /\ result["s1"] # NULL
    /\ result["s1"][1].answer =
         "Slow clearance\n\nAction: Lower dose\n\nEvidence: CPIC A\n\nPhenotype: N/A\n\nEvidence Level: N/A"

\* a section's text: "N/A" when its value is absent
OrNA(a) == IF Present(a) THEN a[1] ELSE "N/A"

\* C11: in the Clinician answer the main summary, Action, Evidence and
\* Phenotype each show "N/A" when absent, whatever the others hold.
C11_ClinicianFallbacks ==
    \A s \in Sessions :
        (result[s] # NULL /\ qUserType[s] = "Clinician")
        => result[s][1].answer =
             OrNA(IF Present(TheGuideline.clinician_summary)
                  THEN TheGuideline.clinician_summary
                  ELSE TheInteraction.summary)
             \o "\n\nAction: " \o OrNA(TheInteraction.action)
             \o "\n\nEvidence: " \o OrNA(TheInteraction.evidence)
             \o "\n\nPhenotype: " \o OrNA(PhenotypeLabel(Joined(TheInteraction)))
             \o "\n\nEvidence Level: " \o OrNA(TheGuideline.evidence_level)

\* what does hold: C11 when summary, action and evidence are all present
FallbacksWhenPresent ==
    (/\ Present(TheInteraction.action) /\ Present(TheInteraction.evidence)
     /\ Present(TheGuideline.clinician_summary) \/ Present(TheInteraction.summary))
    => C11_ClinicianFallbacks

\* the saved row with this id, if any
SavedWithId(rows, id) == SelectSeq(rows, LAMBDA r : r.id = id)

\* C12: a saved row keeps its drug name, gene symbol, view mode and answer
\* text (and every other field) in every step, whatever is done to the
\* reference data and whatever a caller sends; a row goes away only in the
\* step in which a delete of its owner returns.
C12_SavedIsCopy ==
    [][\A i \in 1..Len(saved_answers) :
          LET r == saved_answers[i]
          IN \/ SavedWithId(saved_answers', r.id) = <<r>>
             \/ /\ SavedWithId(saved_answers', r.id) = <<>>
                /\ \E s \in Sessions :
                      /\ user[s] = r.user_id
                      /\ Len(deleted'[s]) = Len(deleted[s]) + 1
                      /\ deleted'[s][Len(deleted'[s])] = [id |-> r.id, ok |-> TRUE]]_vars

\* "Reduce dose" was saved in Patient view; since then the guideline's
\* summaries and the drug's name were rewritten and updates were sent
C12_Witness ==
    /\ calls = MaxCalls
    /\ TheGuideline.patient_summary = Some("Avoid")
    /\ Warfarin \notin {d.name : d \in drugs}
    /\ \E i \in 1..Len(saved_answers) :
          /\ saved_answers[i].answer = "Reduce dose"
          /\ saved_answers[i].user_type = "Patient"
          /\ saved_answers[i].drug_name = Warfarin

\* the rows of a table or list, and their ids
RowsOf(q) == {q[i] : i \in 1..Len(q)}
IdsOf(q) == {q[i].id : i \in 1..Len(q)}

\* the step in which a delete of session s returns
DeleteReturns(s) == Len(deleted'[s]) = Len(deleted[s]) + 1

\* C13: the step in which a delete of a caller returns removes no row owned
\* by another user, whatever id the caller names.
C13_DeleteOwnOnly ==
    [][\A s \in Sessions :
          DeleteReturns(s)
          => \A r \in RowsOf(saved_answers) :
                r.user_id # user[s] => r \in RowsOf(saved_answers')]_vars

\* u1 deleted by the id of a row of u2, the delete returned without error,
\* and the row is still there
C13_Witness ==
    \E k \in 1..Len(deleted["s1"]), r \in RowsOf(saved_answers) :
        /\ deleted["s1"][k] = [id |-> r.id, ok |-> TRUE]
        /\ r.user_id = "u2"

\* the stored rows and the shown list after handleDelete(id) has run to its
\* end on the page of s, from tables rows and list shown
AfterDelete(s, rows, shown, id) ==
    IF DeleteError(rows, user[s], id) = NULL
    THEN <<DeleteSaved(rows, user[s], id), WithoutId(shown, id)>>
    ELSE <<DeleteSaved(rows, user[s], id), shown>>

\* C14: a delete of an id that is not among the caller's visible rows returns
\* without error when storage answers and leaves the table as it is; and the
\* same delete run twice leaves the table and the list as one run does.
C14_DeleteIdempotent ==
    /\ [](\A s \in CasesSessions, id \in SavedIds :
            LET once == AfterDelete(s, saved_answers, savedAnswers[s], id)
            IN AfterDelete(s, once[1], once[2], id) = once)
    /\ [][\A s \in CasesSessions, i \in 1..MaxDeletes :
            (/\ handleDeleteDone(s, i, TRUE)
             /\ deleting[s][i].id \notin IdsOf(SelectSaved(saved_answers, user[s], user[s])))
            => /\ deleted'[s][Len(deleted'[s])].ok
               /\ saved_answers' = saved_answers
               /\ savedAnswers'[s] = WithoutId(deleting[s][i].savedAnswers, deleting[s][i].id)]_vars

\* u1 deleted its row 1 twice, one call after the other: both returned
\* without error, the row is gone from the table and from the list, and the
\* other row of u1 is still listed
C14_Witness ==
    /\ deleted["s1"] = <<[id |-> 1, ok |-> TRUE], [id |-> 1, ok |-> TRUE]>>
    /\ 1 \notin IdsOf(saved_answers)
    /\ IdsOf(savedAnswers["s1"]) = {2}
    /\ IdsOf(SelectSaved(saved_answers, "u1", "u1")) = {2}

\* C15: the list a fetch shows holds each row of the requesting user once and
\* no other row, newest first; no list ever holds a row of another user.
C15_ListOwnNewestFirst ==
    /\ [](\A s \in Sessions : \A r \in RowsOf(savedAnswers[s]) : r.user_id = user[s])
    /\ [][\A s \in Sessions :
            fetchSavedAnswers(s, TRUE)
            => LET q == savedAnswers'[s]
               IN /\ RowsOf(q) = {r \in RowsOf(saved_answers) : r.user_id = user[s]}
                  /\ Cardinality(RowsOf(q)) = Len(q)
                  /\ \A i \in 1..(Len(q) - 1) : q[i].created_at >= q[i + 1].created_at]_vars

\* u1 sees its two rows, the newer one first, while a row of u2 saved between
\* them is in the table
C15_Witness ==
    /\ Len(saved_answers) = 3
    /\ saved_answers[2].user_id = "u2"
    /\ casesPc["s1"] = "shown"
    /\ savedAnswers["s1"] = <<saved_answers[3], saved_answers[1]>>

\* the job rows that triggerWebhook wrote
TriggerRows == SelectSeq(ingestion_jobs, LAMBDA r : r.job_type \in JobTypes)

Calls(caller, t, op) ==
    /\ apiResult' # NULL
    /\ apiResult'[1].caller = caller
    /\ apiResult'[1].table = t
    /\ apiResult'[1].op = op
    /\ ApiCall(caller, t, op)

\* the rows of a table, without the source reference
NoSource(rows) == {[f \in DOMAIN r \ {"source_id"} |-> r[f]] : r \in rows}

\* C17: reference data changes only through administrators and only in
\* sources: no call of any authenticated caller changes a row of drugs,
\* genes, variants, phenotypes, guidelines, interactions or citations (a
\* guideline loses at most the reference to a deleted source), a write to one
\* of them is rejected, and a write to sources by a caller without an
\* app_admins row is rejected and leaves sources as it was.
C17_ReferenceDataAdminOnly ==
    [][/\ drugs' = drugs /\ genes' = genes /\ variants' = variants
       /\ phenotypes' = phenotypes /\ interactions' = interactions
       /\ citations' = citations
       /\ NoSource(guidelines') = NoSource(guidelines)
       /\ \A caller \in Users, t \in RefTables, op \in Ops \ {"SELECT"} :
             Calls(caller, t, op) =>
                /\ UNCHANGED <<refVars, sources>>
                /\ op = "INSERT" => apiResult'[1].error = Some(RLSMsg)
       /\ \A caller \in Users, op \in Ops \ {"SELECT"} :
             Calls(caller, "sources", op) /\ ~IsAdmin(caller) =>
                /\ UNCHANGED <<refVars, sources>>
                /\ op = "INSERT" => apiResult'[1].error = Some(RLSMsg)
       /\ sources' # sources =>
             \E op \in Ops \ {"SELECT"}, caller \in Users :
                IsAdmin(caller) /\ Calls(caller, "sources", op)]_vars

\* the administrator added a source, and the delete of a caller who is no
\* administrator left both sources in place
C17_Witness ==
    /\ apiResult # NULL
    /\ apiResult[1].caller = "u2"
    /\ apiResult[1].table = "sources"
    /\ apiResult[1].op = "DELETE"
    /\ sources = SampleSources \cup {NewRow["sources"]}

IsPrefix(a, b) == Len(a) <= Len(b) /\ SubSeq(b, 1, Len(a)) = a

\* C18: ingestion_jobs is read and inserted by administrators only and
\* updated or deleted by nobody: every step keeps every job row that exists
\* as it is, a caller without an app_admins row reads no row and adds none,
\* an administrator reads them all, and only an administrator's trigger or
\* insert adds a row.
C18_JobsAppendOnlyAdminOnly ==
    [][/\ IsPrefix(ingestion_jobs, ingestion_jobs')
       /\ \A caller \in Users, op \in Ops :
             Calls(caller, "ingestion_jobs", op) /\ ~IsAdmin(caller) =>
                /\ ingestion_jobs' = ingestion_jobs
                /\ apiResult'[1].data = {}
       /\ \A caller \in Users :
             Calls(caller, "ingestion_jobs", "SELECT") /\ IsAdmin(caller) =>
                apiResult'[1].data = Table("ingestion_jobs")
       /\ ingestion_jobs' # ingestion_jobs =>
             \/ \E s \in Sessions : IsAdmin(user[s]) /\ RecordJob(s, TRUE)
             \/ \E caller \in Users :
                   IsAdmin(caller) /\ Calls(caller, "ingestion_jobs", "INSERT")]_vars

\* a trigger left a pending row, and the administrator's update of the table
\* changed nothing
C18_Witness ==
    /\ apiResult # NULL
    /\ apiResult[1].caller = "u1"
    /\ apiResult[1].table = "ingestion_jobs"
    /\ apiResult[1].op = "UPDATE"
    /\ Len(ingestion_jobs) = 1
    /\ ingestion_jobs[1].status = "pending"

\* a step of a storage call of the query flow of s, or of its save, that only
\* a failure of the call explains
FailedCall(s) ==
    \/ ReadUsage(s, FALSE) /\ ~ReadUsage(s, TRUE)
    \/ LookupDrug(s, FALSE) /\ ~LookupDrug(s, TRUE)
    \/ LookupGene(s, FALSE) /\ ~LookupGene(s, TRUE)
    \/ FetchInteractions(s, FALSE) /\ ~FetchInteractions(s, TRUE)
    \/ FetchCitations(s, FALSE) /\ ~FetchCitations(s, TRUE)
    \/ WriteUsage(s, FALSE) /\ ~WriteUsage(s, TRUE)
    \/ handleSave(s, FALSE) /\ ~handleSave(s, TRUE)

\* C19: every failure of a storage call of the query flow or of the save ends
\* the flow with the storage failure shown as the error: not "Not in database
\* yet.", not an answer or a success notice, and the call is not made again.
C19_FailuresShown ==
    [][\A s \in FlowSessions :
          FailedCall(s) =>
             /\ error'[s] = StorageMsg
             /\ ~loading'[s]
             /\ pc'[s] = "caught" \/ pc'[s] = pc[s]
             /\ ~saveSuccess'[s]]_vars

\* of the calls of the query flow, the usage read is the one whose failure is
\* shown
UsageReadFailureShown ==
    [][\A s \in FlowSessions :
          ReadUsage(s, FALSE) => error'[s] = StorageMsg /\ pc'[s] = "caught"]_vars

\* C20: a usage write that fails after the answer was rendered ends the
\* handler with the answer still shown, no error in its place, and
\* usage_monthly as it was: the query is not charged, and with the handler
\* over no later step charges it.
C20_FailedWriteKeepsAnswer ==
    [][\A s \in FlowSessions :
          pc[s] = "write" /\ pc'[s] # "write" /\ ~WriteUsage(s, TRUE) =>
             /\ result[s] # NULL
             /\ result'[s] = result[s]
             /\ error'[s] = ""
             /\ ~loading'[s]
             /\ usage_monthly' = usage_monthly
             /\ pc'[s] = "end"]_vars

\* the first query of the month ended with its answer shown and no usage row
C20_Witness ==
    /\ submits = 1
    /\ pc["s1"] = "end"
    /\ result["s1"] # NULL
    /\ error["s1"] = ""
    /\ usage_monthly = <<>>

\* the texts of the citations of a guideline
CitationTexts(id) == {CitationString(c) : c \in {x \in citations : x.guideline_id = id}}

\* the elements of a sequence
Range(q) == {q[i] : i \in DOMAIN q}

\* C21: with several interactions for the resolved pair, the answer shown is
\* the rendering of the row storage returned first, under that row's
\* guideline, and the citations shown are the citations of that guideline:
\* the rendering of no other returned row and no citation of another
\* guideline is on the page.
C21_FirstInteractionOnly ==
    \A s \in Sessions :
        pc[s] = "write" =>
            LET q == interactionsData[s][1]
                first == q[1]
            IN /\ result[s] # NULL
               /\ result[s][1].answer = AnswerText(qUserType[s], first, first.guideline[1])
               /\ Range(result[s][1].citations) = CitationTexts(first.guideline[1].id)
               /\ \A j \in 2..Len(q) :
                     /\ result[s][1].answer #
                           AnswerText(qUserType[s], q[j], q[j].guideline[1])
                     /\ Range(result[s][1].citations) \cap
                           CitationTexts(q[j].guideline[1].id) = {}

\* storage returned the second interaction first, then the first, and the
\* page shows the second one's patient summary and citation
C21_Witness ==
    /\ pc["s1"] = "write"
    /\ Len(interactionsData["s1"][1]) = 2
    /\ interactionsData["s1"][1][1].id = "i3"
    /\ interactionsData["s1"][1][2].id = "i1"
    /\ result["s1"] # NULL
    /\ result["s1"][1].answer = "Check blood tests often"
    /\ Len(result["s1"][1].citations) = 1

\* C22: the quota is kept per user and per month.  The usage read of a query
\* denies it exactly when the counter stored for its user and its month is
\* QUOTA or more, whatever is stored for other users and other months; a
\* step changes the counter of (u, m) only as the usage write of a query of u
\* that started in m; so a user with QUOTA in one month, asking in the next
\* month, is admitted.
C22_PerUserPerMonth ==
    [][/\ \A s \in Sessions :
             pc[s] = "usage" /\ pc'[s] # "usage" =>
                (limitReached'[s] <=>
                    CountIn(usage_monthly, user[s], currentMonth[s]) >= QUOTA)
       /\ \/ usage_monthly' = usage_monthly
          \/ \A u \in Users, m \in Months :
             CountIn(usage_monthly', u, m) # CountIn(usage_monthly, u, m) =>
                \E s \in Sessions :
                   /\ user[s] = u
                   /\ currentMonth[s] = m
                   /\ pc[s] = "write"
                   /\ pc'[s] = "end"]_vars

\* u1 has QUOTA queries stored for the first month, and a query of u1 in the
\* second month has passed its usage read
C22_Witness ==
    /\ CountIn(usage_monthly, "u1", FirstMonth) = QUOTA
    /\ clock # FirstDate
    /\ currentMonth["s1"] = ISOMonth(clock)
    /\ pc["s1"] = "drug"
    /\ ~limitReached["s1"]

\* the rows of a table of owned rows that belong to u
OwnedBy(rows, u) == {rows[i] : i \in {j \in DOMAIN rows : rows[j].user_id = u}}

\* C23: saved_answers and usage_monthly are reachable by the owner only.  A
\* read returns rows of the caller and no other row, whatever its filter; an
\* insert or an update that aims at a row of another user, or that writes
\* another user's identity into a row, leaves both tables as they were, and
\* such an insert is answered with an error; no row ever changes its owner.
C23_OwnerOnly ==
    [][/\ \/ apiResult' = NULL
          \/ apiResult'[1].table \notin {"saved_answers", "usage_monthly"}
          \/ calls' = calls
          \/ LET r == apiResult'[1]
             IN /\ \A x \in r.data : x.user_id = r.caller
                /\ r.op = "SELECT" /\ r.table = "saved_answers" /\ r.owner = r.caller
                      => r.data = OwnedBy(saved_answers, r.caller)
                /\ r.op # "SELECT" /\ (r.owner # r.caller \/ r.new_owner # r.caller)
                      => /\ saved_answers' = saved_answers
                         /\ usage_monthly' = usage_monthly
                         /\ r.op = "INSERT" => r.error # NULL
       /\ \A u \in Users :
             /\ {x.id : x \in OwnedBy(saved_answers, u)} \subseteq
                   {x.id : x \in OwnedBy(saved_answers', u)}
             /\ {x.month : x \in OwnedBy(usage_monthly, u)} \subseteq
                   {x.month : x \in OwnedBy(usage_monthly', u)}
             /\ Cardinality(OwnedBy(usage_monthly', u) \ OwnedBy(usage_monthly, u))
                   + Cardinality(OwnedBy(saved_answers', u) \ OwnedBy(saved_answers, u))
                   > 0
                => apiResult'[1].caller = u]_vars

\* u2 asked for the saved answers of u1, which exist, and got none; before,
\* an insert into saved_answers was rejected
C23_Witness ==
    /\ apiResult # NULL
    /\ apiResult[1].caller = "u2"
    /\ apiResult[1].table = "saved_answers"
    /\ apiResult[1].op = "SELECT"
    /\ apiResult[1].owner = "u1"
    /\ apiResult[1].data = {}
    /\ OwnedBy(saved_answers, "u1") # {}
    /\ saves = 3
    /\ Len(saved_answers) = 2

\* the sources that guidelines refer to
Referenced(rows) == {g.source_id[1] : g \in {x \in rows : x.source_id # NULL}}

\* C24: deleting a source deletes no guideline, interaction or citation.
\* Every step keeps the interactions and the citations, keeps every guideline
\* with all its columns but the source reference, keeps the reference of a
\* guideline whose source is still stored, and leaves a guideline whose
\* source is gone with an absent reference.
C24_SourceDeleteKeepsGuidelines ==
    [][/\ interactions' = interactions
       /\ citations' = citations
       /\ NoSource(guidelines') = NoSource(guidelines)
       /\ Cardinality(guidelines') = Cardinality(guidelines)
       /\ \A g \in guidelines :
             g.source_id # NULL /\ g.source_id[1] \in {r.id : r \in sources'}
                => g \in guidelines'
       /\ Referenced(guidelines') \subseteq {r.id : r \in sources'}]_vars

\* the administrator deleted the source CPIC on the page: the guideline that
\* referred to it is stored without a source
C24_Witness ==
    /\ toast["s1"] = Some([message |-> "Source deleted successfully", type |-> "success"])
    /\ "src1" \notin {r.id : r \in sources}
    /\ "src1" \notin {r.id : r \in pageSources["s1"]}
    /\ \E g \in guidelines : g.id = "gl1" /\ g.source_id = NULL
    /\ Cardinality(guidelines) = 2

\* C25: under any interleaving of the queries of the sessions, no row of
\* usage_monthly holds a query_count above QUOTA: a row is inserted with 1,
\* and an update writes one more than a value that was read below QUOTA.
C25_NeverAboveQuota ==
    /\ \A i \in DOMAIN usage_monthly : usage_monthly[i].query_count \in 1..QUOTA
    /\ \A s \in Sessions :
          pc[s] \in {"drug", "gene", "interactions", "citations", "write"}
          /\ usageData[s] # NULL
             => usageData[s][1].query_count < QUOTA

\* two queries of u1 read 49 and each wrote QUOTA: more answers than QUOTA
\* were given in the month, and the counter is QUOTA
C25_Witness ==
    /\ StoredCount("u1", FirstMonth) = QUOTA
    /\ succeeded[<<"u1", FirstMonth>>] = QUOTA + 1
    /\ pc["s1"] = "end"
    /\ pc["s2"] = "end"

\* C26: within a month the counter stored for a user never decreases: no step
\* stores for some (user, month) less than was stored before the step.
C26_CounterNeverDecreases ==
    [][\/ usage_monthly' = usage_monthly
       \/ \A u \in Users, m \in Months :
             CountIn(usage_monthly', u, m) >= CountIn(usage_monthly, u, m)]_vars

\* one query of a user after another never lowers the counter
CounterNeverDecreasesSeq ==
    [][\A u \in Users, m \in Months :
          CountIn(usage_monthly', u, m) >= CountIn(usage_monthly, u, m)]_vars

\* the step saves a row: the row, and the rendered answers it may be the
\* snapshot of
SavedNow == saved_answers'[Len(saved_answers')]
RenderedAs(r, s) ==
    /\ user[s] = r.user_id
    /\ result[s] # NULL
    /\ r.answer = result[s][1].answer
    /\ r.drug_name = result[s][1].drug
    /\ r.gene_name = result[s][1].gene

\* C27: a saved row is a snapshot of one rendered answer: the view mode of
\* every row that is saved is the view mode under which the answer on the
\* page of its user, whose text it holds, was rendered.
C27_SnapshotViewMode ==
    [][Len(saved_answers') = Len(saved_answers) + 1 =>
          \E s \in Sessions : RenderedAs(SavedNow, s) /\ SavedNow.user_type = qUserType[s]]_vars

\* a save without a switch of the view since the query stores the view of
\* the rendering, and every save stores the text, drug and gene on the page
SnapshotWithoutSwitch ==
    [][Len(saved_answers') = Len(saved_answers) + 1 =>
          \E s \in Sessions :
             /\ RenderedAs(SavedNow, s)
             /\ SavedNow.user_type = userType[s]
             /\ userType[s] = qUserType[s] => SavedNow.user_type = qUserType[s]]_vars

DeletedNotShownOneByOne ==
    \A s \in Sessions :
        (/\ deleting[s] = <<>>
         /\ \A i \in DOMAIN deleted[s] : deleted[s][i].ok
         /\ Len(deleted[s]) <= 1)
            => IdsOf(savedAnswers[s]) \cap {deleted[s][i].id : i \in DOMAIN deleted[s]} = {}

----------------------------------------------------------------------------
\* the query of s waits for its interactions, and whichever order the
\* matching rows come in, the first of them has no guideline
FirstWithoutGuideline(s) ==
    /\ pc[s] = "interactions"
    /\ \A q \in InteractionsOf(drugData[s][1].id, geneData[s][1].id) :
           Len(q) > 0 /\ Winner(q).guideline = NULL

\* C29: when the interaction fetch returns its rows and the first of them has
\* no guideline, the query ends in the error state: the error is shown, no
\* answer is shown, the loading flag is cleared, the citation fetch is not
\* sent and no usage row is inserted or changed; the query does nothing more
\* afterwards (the next step of the page is a new submit).
C29_NoGuidelineIsError ==
    [][\A s \in FlowSessions :
          /\ (FirstWithoutGuideline(s) /\ pc'[s] \notin {"interactions", "ret87"})
                => /\ pc'[s] = "caught"
                   /\ error'[s] = NullGuidelineMsg
                   /\ result'[s] = NULL
                   /\ ~loading'[s]
                   /\ usage_monthly' = usage_monthly
          /\ (pc[s] = "caught" /\ pc'[s] # "caught")
                => pc'[s] = "usage" /\ usage_monthly' = usage_monthly]_vars

C29_Witness ==
    \E s \in FlowSessions :
        /\ pc[s] = "caught"
        /\ error[s] = NullGuidelineMsg
        /\ result[s] = NULL
        /\ ~loading[s]

----------------------------------------------------------------------------
\* the positions at which handleSubmit has returned
Finished == {"ret48", "ret68", "ret87", "caught", "end"}

\* C30: provided each storage call returns at some time, every submitted
\* query finishes at some time, with the loading flag cleared, whatever its
\* outcome.
C30_QueriesFinish ==
    \A s \in LiveSessions :
        (pc[s] = "usage" /\ loading[s]) ~> (pc[s] \in Finished /\ ~loading[s])

\* a query of a page that submitted before has ended, denied by the quota
C30_Witness ==
    \E s \in LiveSessions :
        /\ pc[s] = "ret48"
        /\ limitReached[s]
        /\ ~loading[s]
        /\ submits >= 2

====
